---- MODULE Spec2Model ----
(***************************************************************************)
(* Clipboard history engine of src-tauri/src/clipboard_manager.rs:         *)
(* ClipboardManager (history, suppression tokens, repeat memo), its        *)
(* add/remove/pin/clear operations and paste_item, together with the OS    *)
(* clipboard and the polling monitor that feeds add_text / add_image.      *)
(*                                                                         *)
(* Strings are sequences of character codes, Option<T> is <<>> (None) or   *)
(* <<x>> (Some(x)), a Vec is a sequence, a Uuid is a fresh counter value.  *)
(***************************************************************************)
EXTENDS Integers, Sequences, FiniteSets, TLC

(* ------------------------------------------------------------------ *)
(* Program constants                                                    *)
(* ------------------------------------------------------------------ *)
MAX_HISTORY_SIZE == 50

PREVIEW_TEXT_MAX_LEN == 100

\* "file://"
FILE_URI_PREFIX == <<102, 105, 108, 101, 58, 47, 47>>

\* "win11-clipboard-history/gifs/"
GIF_CACHE_MARKER ==
    <<119, 105, 110, 49, 49, 45, 99, 108, 105, 112, 98, 111, 97, 114, 100, 45,
      104, 105, 115, 116, 111, 114, 121, 47, 103, 105, 102, 115, 47>>

(* ------------------------------------------------------------------ *)
(* Bounds of the model                                                  *)
(* ------------------------------------------------------------------ *)
\* entries created in one behaviour of Spec
MaxItems == 3

\* entries created in one behaviour of SpecAddText
MaxAdds == 5

\* entries created in one behaviour of SpecReplay
MaxReplayItems == 2

\* add_text calls of pairwise distinct texts in SpecFill
MaxFill == 104

\* length of the history SpecCap starts from
BaseLen == 49

\* entries created on top of the base history in SpecCap
CapAdds == 2

\* entries created under SpecLiteral
MaxLiteralItems == 2

\* entries created under SpecPromote
MaxPromoteItems == 3

\* keyboard devices listened to
MaxIngestItems == 2
MaxEmojis == 22
MaxReuse == 2
NumDevices == 2

\* input events fetched in all, and at most in one fetch_events call
MaxKeyEvents == 3

MaxBatch == 2

(* ------------------------------------------------------------------ *)
(* Option and sequence helpers                                          *)
(* ------------------------------------------------------------------ *)
None == <<>>

Some(x) == <<x>>

IsSome(o) == Len(o) = 1

Unwrap(o) == o[1]

\* Iterator::position over the results of the closure, one flag per element:
\* index of the first element the closure accepts, 0 if none
Position(flags) ==
    IF \E i \in 1..Len(flags) : flags[i]
    THEN CHOOSE i \in 1..Len(flags) :
             flags[i] /\ \A j \in 1..(i - 1) : ~flags[j]
    ELSE 0

\* Iterator::rposition: index of the last element the closure accepts, 0 if
\* none
RPosition(flags) ==
    IF \E i \in 1..Len(flags) : flags[i]
    THEN CHOOSE i \in 1..Len(flags) :
             flags[i] /\ \A j \in (i + 1)..Len(flags) : ~flags[j]
    ELSE 0

\* Vec::remove(pos), pos 1-based
RemoveAt(s, pos) == SubSeq(s, 1, pos - 1) \o SubSeq(s, pos + 1, Len(s))

\* Vec::insert(pos, x) with pos 1-based: x ends up at index pos
InsertAt(s, pos, x) == SubSeq(s, 1, pos - 1) \o <<x>> \o SubSeq(s, pos, Len(s))

\* str::contains: needle occurs in hay as a contiguous substring
Contains(hay, needle) ==
    \E i \in 1..(Len(hay) - Len(needle) + 1) :
        SubSeq(hay, i, i + Len(needle) - 1) = needle

\* char::is_whitespace on the characters used here (space, tab, LF, CR)
IsWhitespace(c) == c \in {32, 9, 10, 13}

\* str::trim().is_empty()
TrimIsEmpty(text) == \A i \in 1..Len(text) : IsWhitespace(text[i])

\* decimal digits of n, most significant first (format!("{}", n))
RECURSIVE Dec(_)
Dec(n) == IF n < 10 THEN <<48 + n>> ELSE Dec(n \div 10) \o <<48 + (n % 10)>>

\* value of a digit string, as str::parse::<u64> accumulates it
RECURSIVE DigitsValue(_)
DigitsValue(s) ==
    IF Len(s) = 0 THEN 0
    ELSE 10 * DigitsValue(SubSeq(s, 1, Len(s) - 1)) + (s[Len(s)] - 48)

\* str::parse::<u64>: None unless a non-empty digit string.  (Rust also
\* accepts a leading '+' and rejects values of 2^64 and more; neither occurs
\* in a preview written by new_image, whose hash is a u64.)
ParseU64(s) ==
    IF Len(s) = 0 \/ \E i \in 1..Len(s) : s[i] \notin 48..57
    THEN None
    ELSE Some(DigitsValue(s))

\* str::split('#').nth(1): the text between the first '#' and the next one
SplitHashNth1(s) ==
    LET first == Position([i \in 1..Len(s) |-> s[i] = 35])
    IN  IF first = 0 THEN None
        ELSE LET rest == SubSeq(s, first + 1, Len(s))
                 nxt == Position([i \in 1..Len(rest) |-> rest[i] = 35])
             IN  Some(IF nxt = 0 THEN rest ELSE SubSeq(rest, 1, nxt - 1))

(* ------------------------------------------------------------------ *)
(* Hashing, entries                                                     *)
(* ------------------------------------------------------------------ *)
\* calculate_hash: DefaultHasher over the bytes of the value.  The 64-bit
\* SipHash is modelled by a polynomial hash over the character codes, kept
\* below 2^31; it is injective on the inputs the specifications draw.
RECURSIVE calculate_hash(_)
calculate_hash(t) ==
    IF Len(t) = 0 THEN 7
    ELSE (calculate_hash(SubSeq(t, 1, Len(t) - 1)) * 257 + t[Len(t)]) % 1000003

\* ClipboardContent::Text
TextContent(text) == [type |-> "Text", text |-> text]

\* ClipboardContent::Image
ImageContent(base64, width, height) ==
    [type |-> "Image", base64 |-> base64, width |-> width, height |-> height]

\* ClipboardItem::create; the Uuid is the fresh id, and the timestamp, which
\* no operation reads, is the order of the ids
create(content, preview, id) ==
    [id |-> id, content |-> content, pinned |-> FALSE, preview |-> preview]

\* ClipboardItem::new_text
new_text(text, id) ==
    LET preview ==
            IF Len(text) > PREVIEW_TEXT_MAX_LEN
            THEN SubSeq(text, 1, PREVIEW_TEXT_MAX_LEN) \o <<46, 46, 46>>
            ELSE text
    IN  create(TextContent(text), preview, id)

\* ClipboardItem::new_image: preview is "Image ({}x{}) #{}"
new_image(base64, width, height, hash, id) ==
    LET preview ==
            <<73, 109, 97, 103, 101, 32, 40>> \o Dec(width) \o <<120>>
                \o Dec(height) \o <<41, 32, 35>> \o Dec(hash)
    IN  create(ImageContent(base64, width, height), preview, id)

\* ClipboardItem::extract_image_hash
extract_image_hash(item) ==
    IF item.content.type # "Image" THEN None
    ELSE LET seg == SplitHashNth1(item.preview)
         IN  IF IsSome(seg) THEN ParseU64(Unwrap(seg)) ELSE None

IsText(item, text) == item.content.type = "Text" /\ item.content.text = text

\* the closure |item| !item.pinned applied to every entry
NotPinned(history) == [i \in 1..Len(history) |-> ~history[i].pinned]

(* ------------------------------------------------------------------ *)
(* Image encoding                                                       *)
(* ------------------------------------------------------------------ *)
\* ImageData: width, height and the RGBA bytes (4 per pixel)
ImageData(width, height, bytes) ==
    [width |-> width, height |-> height, bytes |-> bytes]

\* convert_image_to_base64: RgbaImage::from_raw is None when the buffer is
\* shorter than width*height*4 and keeps only that many bytes otherwise; the
\* PNG, base64-encoded, is modelled by the record of what it carries
convert_image_to_base64(image_data) ==
    LET need == image_data.width * image_data.height * 4
    IN  IF Len(image_data.bytes) < need THEN None
        ELSE Some([png |-> [width |-> image_data.width,
                            height |-> image_data.height,
                            rgba |-> SubSeq(image_data.bytes, 1, need)]])

\* write_image_to_clipboard, up to set_image: base64-decode, load the PNG,
\* to_rgba8, and pair the bytes with the entry's width and height
decode_image(base64, width, height) ==
    ImageData(width, height, base64.png.rgba)

(* ------------------------------------------------------------------ *)
(* ClipboardManager: the methods as functions of the manager's fields   *)
(* self = [history, last_pasted_text, last_pasted_image_hash,           *)
(*         last_added_text_hash]                                        *)
(* ------------------------------------------------------------------ *)
\* ClipboardManager::new
new ==
    [history |-> <<>>,
     last_pasted_text |-> None,
     last_pasted_image_hash |-> None,
     last_added_text_hash |-> None]

\* the first non-pinned entry, history.iter().find(|item| !item.pinned)
FirstNotPinned(history) ==
    LET pos == Position(NotPinned(history))
    IN  IF pos = 0 THEN None ELSE Some(history[pos])

\* should_skip_text with the matching branch leaving the token armed
should_skip_text_keeps_token(self, text) ==
    IF TrimIsEmpty(text) THEN [skip |-> TRUE, self |-> self]
    ELSE IF Contains(text, FILE_URI_PREFIX) /\ Contains(text, GIF_CACHE_MARKER)
    THEN [skip |-> TRUE, self |-> self]
    ELSE IF IsSome(self.last_pasted_text)
            /\ (Unwrap(self.last_pasted_text) = text
                \/ Contains(text, Unwrap(self.last_pasted_text)))
    THEN [skip |-> TRUE, self |-> self]
    ELSE [skip |-> FALSE, self |-> self]

\* should_skip_text that matches the token by equality only
should_skip_text_equal_only(self, text) ==
    IF TrimIsEmpty(text) THEN [skip |-> TRUE, self |-> self]
    ELSE IF Contains(text, FILE_URI_PREFIX) /\ Contains(text, GIF_CACHE_MARKER)
    THEN [skip |-> TRUE, self |-> self]
    ELSE IF self.last_pasted_text = Some(text)
    THEN [skip |-> TRUE, self |-> [self EXCEPT !.last_pasted_text = None]]
    ELSE [skip |-> FALSE, self |-> self]

\* should_skip_text that compares with the token before anything else
should_skip_text_token_first(self, text) ==
    IF IsSome(self.last_pasted_text)
       /\ (Unwrap(self.last_pasted_text) = text
           \/ Contains(text, Unwrap(self.last_pasted_text)))
    THEN [skip |-> TRUE, self |-> [self EXCEPT !.last_pasted_text = None]]
    ELSE [skip |-> TrimIsEmpty(text)
                   \/ (Contains(text, FILE_URI_PREFIX)
                       /\ Contains(text, GIF_CACHE_MARKER)),
          self |-> self]

\* should_skip_text: [skip, self], self with the token cleared when it matched
should_skip_text(self, text) ==
    IF TrimIsEmpty(text) THEN [skip |-> TRUE, self |-> self]
    ELSE IF Contains(text, FILE_URI_PREFIX) /\ Contains(text, GIF_CACHE_MARKER)
    THEN [skip |-> TRUE, self |-> self]
    ELSE IF IsSome(self.last_pasted_text)
            /\ (Unwrap(self.last_pasted_text) = text
                \/ Contains(text, Unwrap(self.last_pasted_text)))
    THEN [skip |-> TRUE, self |-> [self EXCEPT !.last_pasted_text = None]]
    ELSE [skip |-> FALSE, self |-> self]

\* should_skip_image with the matching branch leaving the token armed
should_skip_image_keeps_token(self, hash) ==
    IF IsSome(self.last_pasted_image_hash)
       /\ Unwrap(self.last_pasted_image_hash) = hash
    THEN [skip |-> TRUE, self |-> self]
    ELSE LET top == FirstNotPinned(self.history)
         IN  IF IsSome(top)
                /\ IsSome(extract_image_hash(Unwrap(top)))
                /\ Unwrap(extract_image_hash(Unwrap(top))) = hash
             THEN [skip |-> TRUE, self |-> self]
             ELSE [skip |-> FALSE, self |-> self]

\* should_skip_image that compares with every non-pinned entry
should_skip_image_anywhere(self, hash) ==
    IF IsSome(self.last_pasted_image_hash)
       /\ Unwrap(self.last_pasted_image_hash) = hash
    THEN [skip |-> TRUE, self |-> [self EXCEPT !.last_pasted_image_hash = None]]
    ELSE [skip |-> \E i \in 1..Len(self.history) :
                      /\ ~self.history[i].pinned
                      /\ extract_image_hash(self.history[i]) = Some(hash),
          self |-> self]

\* should_skip_image: [skip, self]
should_skip_image(self, hash) ==
    IF IsSome(self.last_pasted_image_hash)
       /\ Unwrap(self.last_pasted_image_hash) = hash
    THEN [skip |-> TRUE, self |-> [self EXCEPT !.last_pasted_image_hash = None]]
    ELSE LET top == FirstNotPinned(self.history)
         IN  IF IsSome(top)
                /\ IsSome(extract_image_hash(Unwrap(top)))
                /\ Unwrap(extract_image_hash(Unwrap(top))) = hash
             THEN [skip |-> TRUE, self |-> self]
             ELSE [skip |-> FALSE, self |-> self]

\* is_duplicate_text that looks at every non-pinned entry
is_duplicate_text_anywhere(self, text) ==
    \E i \in 1..Len(self.history) :
        ~self.history[i].pinned /\ IsText(self.history[i], text)

\* is_duplicate_text that never finds the text
is_duplicate_text_never(self, text) == FALSE

\* is_duplicate_text: the first non-pinned entry holds exactly this text
is_duplicate_text(self, text) ==
    LET top == FirstNotPinned(self.history)
    IN  IsSome(top) /\ IsText(Unwrap(top), text)

\* remove_duplicate_text_from_history that removes nothing
remove_duplicate_text_kept(history, text) == history

\* remove_duplicate_text_from_history: drop the first non-pinned entry that
\* holds this text
remove_duplicate_text_from_history(history, text) ==
    LET pos == Position([i \in 1..Len(history) |->
                            ~history[i].pinned /\ IsText(history[i], text)])
    IN  IF pos = 0 THEN history ELSE RemoveAt(history, pos)

\* enforce_history_limit that never trims
enforce_history_limit_off(history) == history

\* enforce_history_limit that removes from the end whatever the pin flag says
enforce_history_limit_tail(history) ==
    IF Len(history) > MAX_HISTORY_SIZE
    THEN SubSeq(history, 1, MAX_HISTORY_SIZE)
    ELSE history

\* enforce_history_limit that searches from the front (position in place of
\* rposition)
RECURSIVE enforce_history_limit_first(_)
enforce_history_limit_first(history) ==
    IF Len(history) > MAX_HISTORY_SIZE
    THEN LET pos == Position(NotPinned(history))
         IN  IF pos = 0 THEN history
             ELSE enforce_history_limit_first(RemoveAt(history, pos))
    ELSE history

\* enforce_history_limit: while len > MAX_HISTORY_SIZE remove the last
\* non-pinned entry; stop when every entry is pinned
RECURSIVE enforce_history_limit(_)
enforce_history_limit(history) ==
    IF Len(history) > MAX_HISTORY_SIZE
    THEN LET pos == RPosition(NotPinned(history))
         IN  IF pos = 0 THEN history
             ELSE enforce_history_limit(RemoveAt(history, pos))
    ELSE history

\* insert_item's index when new entries always go to the front
insert_pos_front(history) == 1

\* insert_item's index when new entries are appended at the back
insert_pos_back(history) == Len(history) + 1

\* the index insert_item inserts at: the first non-pinned slot, or the front
insert_pos(history) ==
    LET pos == Position(NotPinned(history))
    IN  IF pos = 0 THEN 1 ELSE pos

\* insert_item
insert_item(history, item) ==
    enforce_history_limit(InsertAt(history, insert_pos(history), item))

\* add_text without its rapid copy detection
add_text_without_repeat_check(self, text, id) ==
    LET chk == should_skip_text(self, text)
        s1 == chk.self
        text_hash == calculate_hash(text)
    IN  IF chk.skip THEN [self |-> s1, ret |-> None]
        ELSE IF is_duplicate_text(s1, text)
        THEN [self |-> [s1 EXCEPT !.last_added_text_hash = Some(text_hash)],
              ret |-> None]
        ELSE LET item == new_text(text, id)
                 h1 == remove_duplicate_text_from_history(s1.history, text)
             IN  [self |-> [s1 EXCEPT !.history = insert_item(h1, item),
                                      !.last_added_text_hash = Some(text_hash)],
                  ret |-> Some(item)]

\* add_text: [self, ret], ret the Option<ClipboardItem> returned; id is the
\* Uuid a new entry gets
add_text(self, text, id) ==
    LET chk == should_skip_text(self, text)
        s1 == chk.self
        text_hash == calculate_hash(text)
    IN  IF chk.skip THEN [self |-> s1, ret |-> None]
        ELSE IF Some(text_hash) = s1.last_added_text_hash
        THEN [self |-> s1, ret |-> None]
        ELSE IF is_duplicate_text(s1, text)
        THEN [self |-> [s1 EXCEPT !.last_added_text_hash = Some(text_hash)],
              ret |-> None]
        ELSE LET item == new_text(text, id)
                 h1 == remove_duplicate_text_from_history(s1.history, text)
             IN  [self |-> [s1 EXCEPT !.history = insert_item(h1, item),
                                      !.last_added_text_hash = Some(text_hash)],
                  ret |-> Some(item)]

\* add_image that stores the pixels without encoding them
add_image_unencoded(self, image_data, hash, id) ==
    LET chk == should_skip_image(self, hash)
        s1 == chk.self
        item == new_image([png |-> [width |-> image_data.width,
                                    height |-> image_data.height,
                                    rgba |-> image_data.bytes]],
                          image_data.width, image_data.height, hash, id)
    IN  IF chk.skip THEN [self |-> s1, ret |-> None]
        ELSE [self |-> [s1 EXCEPT !.history = insert_item(s1.history, item)],
              ret |-> Some(item)]

\* add_image: [self, ret]
add_image(self, image_data, hash, id) ==
    LET chk == should_skip_image(self, hash)
        s1 == chk.self
        base64_image == convert_image_to_base64(image_data)
    IN  IF chk.skip THEN [self |-> s1, ret |-> None]
        ELSE IF ~IsSome(base64_image) THEN [self |-> s1, ret |-> None]
        ELSE LET item == new_image(Unwrap(base64_image), image_data.width,
                                   image_data.height, hash, id)
             IN  [self |-> [s1 EXCEPT !.history = insert_item(s1.history, item)],
                  ret |-> Some(item)]

\* clear that empties the history, pinned entries included
clear_everything(self) == [self EXCEPT !.history = <<>>]

\* clear that also forgets the suppression tokens
clear_forgets_tokens(self) ==
    [self EXCEPT !.history = SelectSeq(self.history, LAMBDA item : item.pinned),
                 !.last_pasted_text = None,
                 !.last_pasted_image_hash = None]

\* clear: history.retain(|item| item.pinned)
clear(self) ==
    [self EXCEPT !.history = SelectSeq(self.history, LAMBDA item : item.pinned)]

\* remove_item: history.retain(|item| item.id != id)
remove_item(self, id) ==
    [self EXCEPT !.history = SelectSeq(self.history, LAMBDA item : item.id # id)]

\* toggle_pin that moves the entry it toggles to the front
toggle_pin_to_front(self, id) ==
    LET pos == Position([i \in 1..Len(self.history) |-> self.history[i].id = id])
    IN  IF pos = 0 THEN [self |-> self, ret |-> None]
        ELSE LET item == [self.history[pos] EXCEPT !.pinned = ~@]
             IN  [self |-> [self EXCEPT !.history =
                                <<item>> \o RemoveAt(self.history, pos)],
                  ret |-> Some(item)]

\* toggle_pin: flips the flag of the first entry with this id, in place
toggle_pin(self, id) ==
    LET pos == Position([i \in 1..Len(self.history) |-> self.history[i].id = id])
    IN  IF pos = 0 THEN [self |-> self, ret |-> None]
        ELSE LET item == [self.history[pos] EXCEPT !.pinned = ~@]
             IN  [self |-> [self EXCEPT !.history[pos] = item],
                  ret |-> Some(item)]

\* mark_as_pasted that arms nothing
mark_as_pasted_skipped(self, item) == self

\* mark_as_pasted that records the fingerprint of an image and no text
mark_as_pasted_image_only(self, item) ==
    IF item.content.type = "Text"
    THEN [self EXCEPT !.last_pasted_text = None,
                      !.last_pasted_image_hash = None]
    ELSE LET hash == extract_image_hash(item)
         IN  [self EXCEPT !.last_pasted_image_hash =
                              IF IsSome(hash) THEN hash ELSE @,
                          !.last_pasted_text = None]

\* mark_as_pasted
mark_as_pasted(self, item) ==
    IF item.content.type = "Text"
    THEN [self EXCEPT !.last_pasted_text = Some(item.content.text),
                      !.last_pasted_image_hash = None]
    ELSE LET hash == extract_image_hash(item)
         IN  [self EXCEPT !.last_pasted_image_hash =
                              IF IsSome(hash) THEN hash ELSE @,
                          !.last_pasted_text = None]

\* mark_text_as_pasted that leaves the repeat-memo alone
mark_text_as_pasted_token_only(self, text) ==
    [self EXCEPT !.last_pasted_text = Some(text)]

\* mark_text_as_pasted: the text token and the repeat-memo
mark_text_as_pasted(self, text) ==
    [self EXCEPT !.last_pasted_text = Some(text),
                 !.last_added_text_hash = Some(calculate_hash(text))]

(* ------------------------------------------------------------------ *)
(* State                                                                *)
(* ------------------------------------------------------------------ *)
VARIABLES
    history,                 \* ClipboardManager.history
    last_pasted_text,        \* ClipboardManager.last_pasted_text
    last_pasted_image_hash,  \* ClipboardManager.last_pasted_image_hash
    last_added_text_hash,    \* ClipboardManager.last_added_text_hash
    next_id,                 \* the next fresh Uuid
    ret,                     \* Option<ClipboardItem> returned by the last add / toggle
    evicted,                 \* entries enforce_history_limit removed in the last call
    pc,                      \* position of the paste_item call in progress
    paste_arg,               \* the entry passed to the paste_item call in progress
    paste_result,            \* Result of the last paste_item call
    os_clipboard,            \* content of the OS clipboard and who wrote it
    mon_last,                \* content the monitor saw at its last poll
    proto,                   \* replay / ingest / ingest protocol position
    armed,                   \* the latest replay's token was armed and not consumed or overwritten
    guarded,                 \* the OS clipboard holds a replay's write and that replay's token is armed
    unpinned_seen,           \* some toggle_pin has cleared a pinned flag
    running,                 \* HotkeyManager.running
    super_pressed,           \* shared modifier flag of the listeners
    ctrl_pressed,            \* shared modifier flag of the listeners
    alt_pressed,             \* shared modifier flag of the listeners
    listener,                \* per device: position and locals of listen_device
    emitted,                 \* the actions handed to the callback, in order
    fetched,                 \* number of input events fetched so far
    held_by,                 \* per modifier: the device whose press set the flag last
    injector,                \* position, tiers tried and events sent by simulate_paste_keystroke
    emoji                    \* EmojiManager: recent, lookup, and the history file

mgr_vars == <<history, last_pasted_text, last_pasted_image_hash, last_added_text_hash>>

paste_vars == <<pc, paste_arg, paste_result>>

env_vars == <<os_clipboard, mon_last>>

obs_vars == <<proto, armed, guarded, unpinned_seen>>

hk_vars ==
    <<running, super_pressed, ctrl_pressed, alt_pressed, listener, emitted,
      fetched, held_by>>

vars ==
    <<history, last_pasted_text, last_pasted_image_hash, last_added_text_hash,
      next_id, ret, evicted, pc, paste_arg, paste_result, os_clipboard,
      mon_last, proto, armed, guarded, unpinned_seen, running, super_pressed,
      ctrl_pressed, alt_pressed, listener, emitted, fetched, held_by,
      injector, emoji>>

\* the keystroke injector and the emoji manager
side_vars == <<injector, emoji>>

\* the manager's fields as one value
Self ==
    [history |-> history,
     last_pasted_text |-> last_pasted_text,
     last_pasted_image_hash |-> last_pasted_image_hash,
     last_added_text_hash |-> last_added_text_hash]

\* the manager's fields become those of s
SetSelf(s) ==
    /\ history' = s.history
    /\ last_pasted_text' = s.last_pasted_text
    /\ last_pasted_image_hash' = s.last_pasted_image_hash
    /\ last_added_text_hash' = s.last_added_text_hash

(* ------------------------------------------------------------------ *)
(* Clipboard observations                                               *)
(* ------------------------------------------------------------------ *)
TextClip(text) == [type |-> "Text", text |-> text]

ImageClip(image_data) == [type |-> "Image", image |-> image_data]

\* what paste_item writes to the OS clipboard for an entry
ClipOf(item) ==
    IF item.content.type = "Text" THEN TextClip(item.content.text)
    ELSE ImageClip(decode_image(item.content.base64, item.content.width,
                                item.content.height))

\* what makes two contents identical: the text, or the image fingerprint
\* together with the image dimensions
KeyOfClip(clip) ==
    IF clip.type = "Text" THEN [type |-> "Text", key |-> clip.text]
    ELSE [type |-> "Image",
          key |-> <<calculate_hash(clip.image.bytes),
                    clip.image.width, clip.image.height>>]

KeyOfItem(item) ==
    IF item.content.type = "Text" THEN [type |-> "Text", key |-> item.content.text]
    ELSE [type |-> "Image",
          key |-> extract_image_hash(item)
                  \o <<item.content.width, item.content.height>>]

NoKey == [type |-> "None", key |-> <<>>]

\* the suppression token that matches an observation is armed
TokenActiveFor(clip) ==
    IF clip.type = "Text"
    THEN IsSome(last_pasted_text)
         /\ (Unwrap(last_pasted_text) = clip.text
             \/ Contains(clip.text, Unwrap(last_pasted_text)))
    ELSE last_pasted_image_hash = Some(calculate_hash(clip.image.bytes))

\* ingest of one observation: get_current_text / get_current_image hand the
\* text, or the image with calculate_hash of its bytes, to add_text / add_image
ingest(self, clip, id) ==
    IF clip.type = "Text" THEN add_text(self, clip.text, id)
    ELSE add_image(self, clip.image, calculate_hash(clip.image.bytes), id)

\* entries a call removed through enforce_history_limit: those of the history
\* (after the duplicate removal of add_text) plus the new entry that the
\* resulting history no longer holds
EvictedBy(before, r) ==
    IF ~IsSome(r.ret) THEN <<>>
    ELSE LET item == Unwrap(r.ret)
             base == IF item.content.type = "Text"
                     THEN remove_duplicate_text_from_history(
                              before.history, item.content.text)
                     ELSE before.history
             kept == {r.self.history[i].id : i \in 1..Len(r.self.history)}
         IN  SelectSeq(base \o <<item>>, LAMBDA e : e.id \notin kept)

(* ------------------------------------------------------------------ *)
(* Observers: history variables a specification adds to the steps       *)
(* ------------------------------------------------------------------ *)
ProtoReset == [phase |-> 0, key |-> NoKey]

\* proto: 1 after paste_item(e) returned, 2 after the ingest of content
\* identical to e that directly follows it, 3 after the identical ingest that
\* directly follows that one; 0 after anything else
ProtoIngest(clip) ==
    proto' = IF proto.phase \in {1, 2} /\ proto.key = KeyOfClip(clip)
             THEN [proto EXCEPT !.phase = @ + 1]
             ELSE ProtoReset

ProtoPaste ==
    proto' = IF pc # "idle" /\ pc' = "idle"
             THEN [phase |-> 1, key |-> KeyOfItem(Unwrap(paste_arg))]
             ELSE ProtoReset

ProtoOther == proto' = ProtoReset

\* under SpecLiteral, proto: 4 after mark_text_as_pasted(t), 5 after the
\* first ingest of t since, 6 after any further one, with no ingest of other
\* content in between; 0 after an ingest of anything else
LiteralMark(text) == proto' = [phase |-> 4, key |-> KeyOfClip(TextClip(text))]

LiteralIngest(clip) ==
    proto' = IF proto.phase \in {4, 5, 6} /\ proto.key = KeyOfClip(clip)
             THEN [proto EXCEPT !.phase = IF @ = 6 THEN 6 ELSE @ + 1]
             ELSE ProtoReset

\* under SpecIngest, proto: phase 7 and the content of the latest add_text or
\* add_image call, whatever that call did with it
LatestAdd(clip) == proto' = [phase |-> 7, key |-> KeyOfClip(clip)]

\* this step cleared a suppression token that was armed
ConsumedStep ==
    \/ IsSome(last_pasted_text) /\ ~IsSome(last_pasted_text')
    \/ IsSome(last_pasted_image_hash) /\ ~IsSome(last_pasted_image_hash')

\* armed: the latest paste_item has run mark_as_pasted and no ingest has
\* cleared a token since.  guarded: the OS clipboard holds what a paste_item
\* wrote while armed, and since that paste_item began no ingest has cleared a
\* token and no later paste_item has begun
GuardIngest ==
    /\ armed' = (armed /\ ~ConsumedStep)
    /\ guarded' = (guarded /\ ~ConsumedStep)

GuardMark == armed' = TRUE /\ guarded' = FALSE

GuardWrite ==
    /\ armed' = armed
    /\ guarded' = IF pc' = "written" THEN armed ELSE guarded

GuardUserCopy == armed' = armed /\ guarded' = FALSE

\* unpinned_seen: some toggle_pin so far has cleared a pinned flag
UnpinToggle ==
    unpinned_seen' = (unpinned_seen \/ (IsSome(ret') /\ ~Unwrap(ret').pinned))

(* ------------------------------------------------------------------ *)
(* HotkeyManager: one listen_device thread per keyboard device, the     *)
(* shared modifier flags and the callback                               *)
(* ------------------------------------------------------------------ *)
\* the keyboard devices start_evdev_listeners spawned a thread for
Devices == 1..NumDevices

\* an input event: its kind, and for a key event the key and the value
\* (1 = pressed, 0 = released, 2 = repeat)
KeyEvent(key, value) == [kind |-> "Key", key |-> key, value |-> value]

SynEvent == [kind |-> "Synchronization", key |-> "SYN_REPORT", value |-> 0]

\* StoreModifier that clears the flag on a repeat as well
StoreModifier_repeat_clears(flag, value) == value = 1

\* the modifier flag after a key event of one of its keys: a press stores
\* true, a release stores false, a repeat stores nothing
StoreModifier(flag, value) ==
    IF value = 1 THEN TRUE ELSE IF value = 0 THEN FALSE ELSE flag

\* the hotkey test that fires on a lone ctrl or alt as well
IsToggleHotkey_any_modifier(super_down, ctrl_down, alt_down) ==
    super_down \/ ctrl_down \/ alt_down

\* Super+V or Ctrl+Alt+V
IsToggleHotkey(super_down, ctrl_down, alt_down) ==
    super_down \/ (ctrl_down /\ alt_down)

\* the Escape test that fires on a release or a repeat as well
IsCloseHotkey_any_value(key, value) == key = "KEY_ESC"

\* Key::KEY_ESC => if pressed
IsCloseHotkey(key, value) == key = "KEY_ESC" /\ value = 1

\* a listener's locals outside the handling of a V press
Listening(at, events) ==
    [pc |-> at, events |-> events, super_down |-> FALSE, ctrl_down |-> FALSE]

\* HotkeyManager::new: running is true, the flags are false, every thread
\* has opened its device and stands at the head of its loop
HotkeyInit ==
    /\ running = TRUE
    /\ super_pressed = FALSE
    /\ ctrl_pressed = FALSE
    /\ alt_pressed = FALSE
    /\ listener = [d \in Devices |-> Listening("loop", <<>>)]
    /\ emitted = <<>>
    /\ fetched = 0
    /\ held_by = [super |-> 0, ctrl |-> 0, alt |-> 0, down |-> {}]

(* ------------------------------------------------------------------ *)
(* The keystroke injector: simulate_paste_keystroke and its three tiers *)
(* ------------------------------------------------------------------ *)
\* the eight writes of simulate_paste_uinput, in program order
UinputWrites ==
    <<KeyEvent("KEY_LEFTCTRL", 1), SynEvent, KeyEvent("KEY_V", 1), SynEvent,
      KeyEvent("KEY_V", 0), SynEvent, KeyEvent("KEY_LEFTCTRL", 0), SynEvent>>

\* a virtual device that writes the key events without their SYN_REPORT
simulate_paste_uinput_without_sync(fail_at) ==
    LET DeviceEvent(request) ==
            [kind |-> "Device", key |-> request, value |-> 0]
    IN  [ok |-> fail_at = 0,
         wire |->
            (IF fail_at = 0 \/ fail_at > 6
             THEN <<DeviceEvent("UI_DEV_CREATE")>> ELSE <<>>)
            \o (IF fail_at = 0
                THEN SelectSeq(UinputWrites, LAMBDA e : e.kind = "Key")
                ELSE <<>>)
            \o (IF fail_at = 0 THEN <<DeviceEvent("UI_DEV_DESTROY")>> ELSE <<>>)
            \o (IF fail_at # 1 THEN <<DeviceEvent("close")>> ELSE <<>>)]

\* simulate_paste_uinput() when its step fail_at fails (0: none does).
\* Step 1 opens /dev/uinput, steps 2..6 are the ioctls up to UI_DEV_CREATE,
\* steps 7..14 are the eight write_all calls (flush of a File cannot fail).
\* wire is what reached the kernel: the device creation, the events written,
\* UI_DEV_DESTROY at the end of a full run, and the close of the dropped File.
simulate_paste_uinput(fail_at) ==
    LET DeviceEvent(request) ==
            [kind |-> "Device", key |-> request, value |-> 0]
        written == IF fail_at = 0 THEN 8
                   ELSE IF fail_at > 6 THEN fail_at - 7 ELSE 0
    IN  [ok |-> fail_at = 0,
         wire |->
            (IF fail_at = 0 \/ fail_at > 6
             THEN <<DeviceEvent("UI_DEV_CREATE")>> ELSE <<>>)
            \o SubSeq(UinputWrites, 1, written)
            \o (IF fail_at = 0 THEN <<DeviceEvent("UI_DEV_DESTROY")>> ELSE <<>>)
            \o (IF fail_at # 1 THEN <<DeviceEvent("close")>> ELSE <<>>)]

\* simulate_paste_enigo() when its step fail_at fails (0: none does).
\* Step 1 is Enigo::new, 2 presses Control, 3 clicks v, 4 releases Control.
simulate_paste_enigo(fail_at) ==
    LET sent == IF fail_at = 0 THEN 4
                ELSE IF fail_at = 4 THEN 3
                ELSE IF fail_at = 3 THEN 1 ELSE 0
    IN  [ok |-> fail_at = 0,
         wire |-> SubSeq(SelectSeq(UinputWrites, LAMBDA e : e.kind = "Key"),
                         1, sent)]

(* ------------------------------------------------------------------ *)
(* EmojiManager: recent (most recent first), lookup (char -> index into *)
(* recent, counted from 0) and the history file.  An emoji is a number, *)
(* as the emoji{i} of the tests; last_used is left out.                 *)
(* ------------------------------------------------------------------ *)
MAX_RECENT_EMOJIS == 20

\* a rebuild_lookup that clears the map and does not fill it again
rebuild_lookup_clear_only(recent) == [c \in {} |-> 0]

\* rebuild_lookup / the loop of load_from_disk: every entry's char mapped to
\* its index, a later entry overwriting an earlier one of the same char
rebuild_lookup(recent) ==
    [c \in {recent[i].char : i \in 1..Len(recent)} |->
        (CHOOSE i \in 1..Len(recent) :
            /\ recent[i].char = c
            /\ \A j \in (i + 1)..Len(recent) : recent[j].char # c) - 1]

\* a Vec::truncate that leaves the vector as it is
truncate_keeps_all(v, len) == v

\* Vec::truncate(len)
truncate(v, len) == IF Len(v) > len THEN SubSeq(v, 1, len) ELSE v

RECURSIVE SumCounts(_)
\* the use_counts of a list added up
SumCounts(recent) ==
    IF recent = <<>> THEN 0
    ELSE recent[1].use_count + SumCounts(Tail(recent))

\* EmojiManager::new(data_dir) with the history file holding disk;
\* load_from_disk either reads it or fails and leaves the manager empty
EmojiNew(disk, load_ok) ==
    LET recent == IF load_ok THEN disk ELSE <<>>
    IN  [recent |-> recent, lookup |-> rebuild_lookup(recent), disk |-> disk]

\* record_usage(emoji_char); save_ok tells whether save_to_disk succeeds
record_usage(self, emoji_char, save_ok) ==
    LET recent ==
            IF emoji_char \in DOMAIN self.lookup
            THEN LET idx == self.lookup[emoji_char]
                     entry == self.recent[idx + 1]
                 IN  <<[entry EXCEPT !.use_count = @ + 1]>>
                     \o SubSeq(self.recent, 1, idx)
                     \o SubSeq(self.recent, idx + 2, Len(self.recent))
            ELSE truncate(<<[char |-> emoji_char, use_count |-> 1]>>
                          \o self.recent, MAX_RECENT_EMOJIS)
    IN  [recent |-> recent,
         lookup |-> rebuild_lookup(recent),
         disk |-> IF save_ok THEN recent ELSE self.disk]

\* the injector at rest, before any call
InjectorIdle ==
    [pc |-> "idle", attempted |-> <<>>, wire |-> <<>>, result |-> "none"]

\* held_by: device d handles the next event of its batch; a press of a
\* modifier key makes d the holder of that modifier, a release leaves the
\* modifier with no holder (0), anything else changes nothing.  down is the
\* set of <<device, key>> whose press has been handled and whose release has
\* not: the modifier keys that are held down
ObserveStore(d) ==
    held_by' =
        IF listener[d].events = <<>> \/ Head(listener[d].events).kind # "Key"
           \/ Head(listener[d].events).value \notin {0, 1}
        THEN held_by
        ELSE LET event == Head(listener[d].events)
                 holder == IF event.value = 1 THEN d ELSE 0
                 down == IF event.value = 1
                         THEN held_by.down \cup {<<d, event.key>>}
                         ELSE held_by.down \ {<<d, event.key>>}
             IN  IF event.key \in {"KEY_LEFTMETA", "KEY_RIGHTMETA"}
                 THEN [held_by EXCEPT !.super = holder, !.down = down]
                 ELSE IF event.key \in {"KEY_LEFTCTRL", "KEY_RIGHTCTRL"}
                 THEN [held_by EXCEPT !.ctrl = holder, !.down = down]
                 ELSE IF event.key \in {"KEY_LEFTALT", "KEY_RIGHTALT"}
                 THEN [held_by EXCEPT !.alt = holder, !.down = down]
                 ELSE held_by

\* everything but the hotkey manager
clip_vars ==
    <<mgr_vars, next_id, ret, evicted, paste_vars, env_vars, obs_vars,
      side_vars>>

\* the clipboard manager, its callers and its observers
clip_core ==
    <<mgr_vars, next_id, ret, evicted, paste_vars, env_vars, obs_vars>>

\* the running check of a loop that never breaks
CheckRunning_never_breaks(d) ==
    /\ listener[d].pc = "loop"
    /\ listener' = [listener EXCEPT ![d].pc = "fetch"]
    /\ UNCHANGED <<running, super_pressed, ctrl_pressed, alt_pressed, emitted,
                   fetched, clip_vars>>

\* if !running.load() { break; }
CheckRunning(d) ==
    /\ listener[d].pc = "loop"
    /\ listener' = [listener EXCEPT ![d].pc = IF running THEN "fetch"
                                              ELSE "stopped"]
    /\ UNCHANGED <<running, super_pressed, ctrl_pressed, alt_pressed, emitted,
                   fetched, clip_vars>>

\* device.fetch_events() returns Ok(events)
FetchEvents(d, events) ==
    /\ listener[d].pc = "fetch"
    /\ fetched + Len(events) <= MaxKeyEvents
    /\ fetched' = fetched + Len(events)
    /\ listener' = [listener EXCEPT ![d] = Listening("events", events)]
    /\ UNCHANGED <<running, super_pressed, ctrl_pressed, alt_pressed, emitted,
                   clip_vars>>

\* a read error other than EAGAIN that ends the thread
FetchError_breaks(d, errno) ==
    /\ listener[d].pc = "fetch"
    /\ listener' = [listener EXCEPT ![d].pc = IF errno = "EAGAIN" THEN "loop"
                                              ELSE "stopped"]
    /\ UNCHANGED <<running, super_pressed, ctrl_pressed, alt_pressed, emitted,
                   fetched, clip_vars>>

\* device.fetch_events() returns Err(e): EAGAIN (raw_os_error 11) is passed
\* over, anything else is logged and the thread goes to sleep
FetchError(d, errno) ==
    /\ listener[d].pc = "fetch"
    /\ listener' = [listener EXCEPT ![d].pc = IF errno = "EAGAIN" THEN "loop"
                                              ELSE "backoff"]
    /\ UNCHANGED <<running, super_pressed, ctrl_pressed, alt_pressed, emitted,
                   fetched, clip_vars>>

\* the end of thread::sleep(100 ms): back to the head of the loop, the
\* device still open
Backoff(d) ==
    /\ listener[d].pc = "backoff"
    /\ listener' = [listener EXCEPT ![d].pc = "loop"]
    /\ UNCHANGED <<running, super_pressed, ctrl_pressed, alt_pressed, emitted,
                   fetched, clip_vars>>

\* one turn of `for event in events`, up to and including its first access
\* to shared state; past the last event the thread is back at the loop head
HandleEvent(d) ==
    /\ listener[d].pc = "events"
    /\ IF listener[d].events = <<>>
       THEN /\ listener' = [listener EXCEPT ![d].pc = "loop"]
            /\ UNCHANGED <<super_pressed, ctrl_pressed, alt_pressed, emitted>>
       ELSE LET event == Head(listener[d].events)
                rest == Tail(listener[d].events)
                key == IF event.kind = "Key" THEN event.key ELSE "none"
                pressed == event.value = 1
            IN  /\ super_pressed' =
                       IF key \in {"KEY_LEFTMETA", "KEY_RIGHTMETA"}
                       THEN StoreModifier(super_pressed, event.value)
                       ELSE super_pressed
                /\ ctrl_pressed' =
                       IF key \in {"KEY_LEFTCTRL", "KEY_RIGHTCTRL"}
                       THEN StoreModifier(ctrl_pressed, event.value)
                       ELSE ctrl_pressed
                /\ alt_pressed' =
                       IF key \in {"KEY_LEFTALT", "KEY_RIGHTALT"}
                       THEN StoreModifier(alt_pressed, event.value)
                       ELSE alt_pressed
                /\ emitted' = IF IsCloseHotkey(key, event.value)
                              THEN Append(emitted, "Close")
                              ELSE emitted
                /\ listener' =
                       [listener EXCEPT ![d] =
                           IF key = "KEY_V" /\ pressed
                           THEN [pc |-> "load_ctrl", events |-> rest,
                                 super_down |-> super_pressed,
                                 ctrl_down |-> FALSE]
                           ELSE Listening("events", rest)]
    /\ UNCHANGED <<running, fetched, clip_vars>>

\* let ctrl_down = ctrl_pressed.load(Ordering::SeqCst);
LoadCtrl(d) ==
    /\ listener[d].pc = "load_ctrl"
    /\ listener' = [listener EXCEPT ![d].pc = "load_alt",
                                    ![d].ctrl_down = ctrl_pressed]
    /\ UNCHANGED <<running, super_pressed, ctrl_pressed, alt_pressed, emitted,
                   fetched, clip_vars>>

\* let alt_down = alt_pressed.load(Ordering::SeqCst); then the test and the
\* callback
LoadAlt(d) ==
    /\ listener[d].pc = "load_alt"
    /\ emitted' = IF IsToggleHotkey(listener[d].super_down,
                                    listener[d].ctrl_down, alt_pressed)
                  THEN Append(emitted, "Toggle")
                  ELSE emitted
    /\ listener' = [listener EXCEPT ![d] = Listening("events", listener[d].events)]
    /\ UNCHANGED <<running, super_pressed, ctrl_pressed, alt_pressed, fetched,
                   clip_vars>>

\* HotkeyManager::stop, also run by Drop
Stop ==
    /\ running' = FALSE
    /\ UNCHANGED <<super_pressed, ctrl_pressed, alt_pressed, listener, emitted,
                   fetched, clip_vars>>

(* ------------------------------------------------------------------ *)
(* Initial states                                                       *)
(* ------------------------------------------------------------------ *)
InitWith(self, id) ==
    /\ history = self.history
    /\ last_pasted_text = self.last_pasted_text
    /\ last_pasted_image_hash = self.last_pasted_image_hash
    /\ last_added_text_hash = self.last_added_text_hash
    /\ next_id = id
    /\ ret = None
    /\ evicted = <<>>
    /\ pc = "idle"
    /\ paste_arg = None
    /\ paste_result = "none"
    /\ os_clipboard = None
    /\ mon_last = None
    /\ proto = ProtoReset
    /\ armed = FALSE
    /\ guarded = FALSE
    /\ unpinned_seen = FALSE
    /\ HotkeyInit
    /\ injector = InjectorIdle
    /\ emoji = EmojiNew(<<>>, TRUE)

\* the state after ClipboardManager::new()
Init == InitWith(new, 1)

(* ------------------------------------------------------------------ *)
(* Operations on the manager (each holds &mut self for its duration)    *)
(* ------------------------------------------------------------------ *)
\* the bookkeeping every ingest shares, r the result of add_text / add_image
IngestEffect(r) ==
    /\ SetSelf(r.self)
    /\ ret' = r.ret
    /\ evicted' = EvictedBy(Self, r)
    /\ next_id' = IF IsSome(r.ret) THEN next_id + 1 ELSE next_id

\* add_text(text)
AddText(text) ==
    /\ pc = "idle"
    /\ IngestEffect(add_text(Self, text, next_id))
    /\ pc' = pc /\ paste_arg' = paste_arg /\ paste_result' = "none"
    /\ UNCHANGED env_vars
    /\ UNCHANGED <<hk_vars, side_vars>>

\* add_image(image_data, hash), hash the fingerprint of the bytes
AddImage(image_data) ==
    /\ pc = "idle"
    /\ IngestEffect(add_image(Self, image_data,
                              calculate_hash(image_data.bytes), next_id))
    /\ pc' = pc /\ paste_arg' = paste_arg /\ paste_result' = "none"
    /\ UNCHANGED env_vars
    /\ UNCHANGED <<hk_vars, side_vars>>

\* toggle_pin(id)
TogglePin(id) ==
    /\ pc = "idle"
    /\ LET r == toggle_pin(Self, id)
       IN  /\ SetSelf(r.self)
           /\ ret' = r.ret
    /\ evicted' = <<>>
    /\ pc' = pc /\ paste_arg' = paste_arg /\ paste_result' = "none"
    /\ UNCHANGED <<next_id, env_vars>>
    /\ UNCHANGED <<hk_vars, side_vars>>

\* remove_item(id)
RemoveItem(id) ==
    /\ pc = "idle"
    /\ SetSelf(remove_item(Self, id))
    /\ ret' = None
    /\ evicted' = <<>>
    /\ pc' = pc /\ paste_arg' = paste_arg /\ paste_result' = "none"
    /\ UNCHANGED <<next_id, env_vars>>
    /\ UNCHANGED <<hk_vars, side_vars>>

\* clear()
Clear ==
    /\ pc = "idle"
    /\ SetSelf(clear(Self))
    /\ ret' = None
    /\ evicted' = <<>>
    /\ pc' = pc /\ paste_arg' = paste_arg /\ paste_result' = "none"
    /\ UNCHANGED <<next_id, env_vars>>
    /\ UNCHANGED <<hk_vars, side_vars>>

\* mark_text_as_pasted(text)
MarkTextAsPasted(text) ==
    /\ pc = "idle"
    /\ SetSelf(mark_text_as_pasted(Self, text))
    /\ ret' = None
    /\ evicted' = <<>>
    /\ pc' = pc /\ paste_arg' = paste_arg /\ paste_result' = "none"
    /\ UNCHANGED <<next_id, env_vars>>
    /\ UNCHANGED <<hk_vars, side_vars>>

\* the error of simulate_paste_keystroke
ALL_PASTE_METHODS_FAILED == "All paste methods failed"

(* ------------------------------------------------------------------ *)
(* paste_item(item), step by step                                       *)
(* ------------------------------------------------------------------ *)
\* paste_item returns: the call in progress ends with this Result
PasteReturn(result) ==
    /\ pc' = "idle"
    /\ paste_result' = result
    /\ paste_arg' = None

\* 1. self.mark_as_pasted(item)
PasteMark(item) ==
    /\ pc = "idle"
    /\ SetSelf(mark_as_pasted(Self, item))
    /\ pc' = "marked"
    /\ paste_arg' = Some(item)
    /\ paste_result' = "none"
    /\ ret' = None
    /\ evicted' = <<>>
    /\ UNCHANGED <<next_id, env_vars>>
    /\ UNCHANGED <<hk_vars, side_vars>>

\* a step 2 that goes on to step 3 after a failure
PasteWrite_ignores_failure(outcome) ==
    /\ pc = "marked"
    /\ pc' = "written"
    /\ os_clipboard' = IF outcome = "ok"
                       THEN Some([content |-> ClipOf(Unwrap(paste_arg)),
                                  by |-> "replay"])
                       ELSE os_clipboard
    /\ UNCHANGED <<paste_arg, paste_result>>
    /\ UNCHANGED <<mgr_vars, next_id, ret, evicted, mon_last>>
    /\ UNCHANGED <<hk_vars, side_vars>>

\* 2. get_system_clipboard()? and set_text / write_image_to_clipboard: either
\* may fail, and then paste_item returns that error
PasteWrite(outcome) ==
    /\ pc = "marked"
    /\ IF outcome = "ok"
       THEN /\ os_clipboard' = Some([content |-> ClipOf(Unwrap(paste_arg)),
                                     by |-> "replay"])
            /\ pc' = "written"
            /\ UNCHANGED <<paste_arg, paste_result>>
       ELSE /\ PasteReturn(outcome)
            /\ UNCHANGED os_clipboard
    /\ UNCHANGED <<mgr_vars, next_id, ret, evicted, mon_last>>
    /\ UNCHANGED <<hk_vars, side_vars>>

\* simulate_paste_keystroke() that gives up when the uinput tier fails
simulate_paste_keystroke_uinput_only(tiers) ==
    IF tiers.uinput THEN "ok" ELSE ALL_PASTE_METHODS_FAILED

\* simulate_paste_keystroke(): uinput first, then enigo, then xdotool when
\* DISPLAY is set; tiers holds what each mechanism would do in this session
simulate_paste_keystroke(tiers) ==
    IF tiers.uinput THEN "ok"
    ELSE IF tiers.enigo THEN "ok"
    ELSE IF tiers.display /\ tiers.xdotool = "success" THEN "ok"
    ELSE ALL_PASTE_METHODS_FAILED

\* 3. simulate_paste_action(): the settle sleep, simulate_paste_keystroke()?,
\* the trailing sleep
PasteKeystroke(tiers) ==
    /\ pc = "written"
    /\ PasteReturn(simulate_paste_keystroke(tiers))
    /\ UNCHANGED <<mgr_vars, next_id, ret, evicted, env_vars>>
    /\ UNCHANGED <<hk_vars, side_vars>>

(* ------------------------------------------------------------------ *)
(* simulate_paste_keystroke(), tier by tier                             *)
(* ------------------------------------------------------------------ *)
\* a caller enters simulate_paste_keystroke()
InjectCall ==
    /\ injector.pc = "idle"
    /\ injector' = [InjectorIdle EXCEPT !.pc = "uinput"]
    /\ UNCHANGED <<clip_core, hk_vars, emoji>>

\* a caller that tries the next tier whatever the tier returned
AfterTier_keeps_going(tier, r, next) ==
    injector' =
        [pc |-> next,
         attempted |-> Append(injector.attempted, [tier |-> tier, ok |-> r.ok]),
         wire |-> injector.wire \o r.wire,
         result |-> IF r.ok THEN "ok"
                    ELSE IF next = "idle" THEN ALL_PASTE_METHODS_FAILED
                    ELSE "none"]

\* if let Ok(()) = tier() { return Ok(()); }, and after the last tier
\* Err("All paste methods failed"); r is what the tier returned and sent
AfterTier(tier, r, next) ==
    injector' =
        [pc |-> IF r.ok THEN "idle" ELSE next,
         attempted |-> Append(injector.attempted, [tier |-> tier, ok |-> r.ok]),
         wire |-> injector.wire \o r.wire,
         result |-> IF r.ok THEN "ok"
                    ELSE IF next = "idle" THEN ALL_PASTE_METHODS_FAILED
                    ELSE "none"]

\* Try uinput first
TryUinput(fail_at) ==
    /\ injector.pc = "uinput"
    /\ AfterTier("uinput", simulate_paste_uinput(fail_at), "enigo")
    /\ UNCHANGED <<clip_core, hk_vars, emoji>>

\* Fallback to enigo
TryEnigo(fail_at) ==
    /\ injector.pc = "enigo"
    /\ AfterTier("enigo", simulate_paste_enigo(fail_at), "xdotool")
    /\ UNCHANGED <<clip_core, hk_vars, emoji>>

\* the xdotool fallback of a caller that does not look at the exit status
TryXdotool_ignores_status(display, outcome) ==
    /\ injector.pc = "xdotool"
    /\ IF display
       THEN AfterTier("xdotool",
                      [ok |-> outcome # "spawn_failed",
                       wire |-> IF outcome = "success"
                                THEN simulate_paste_enigo(0).wire ELSE <<>>],
                      "idle")
       ELSE injector' = [injector EXCEPT !.pc = "idle",
                                         !.result = ALL_PASTE_METHODS_FAILED]
    /\ UNCHANGED <<clip_core, hk_vars, emoji>>

\* Last fallback to xdotool, run only when DISPLAY is set: the command cannot
\* be launched, exits unsuccessfully, or sends ctrl+v and exits successfully
TryXdotool(display, outcome) ==
    /\ injector.pc = "xdotool"
    /\ IF display
       THEN AfterTier("xdotool",
                      [ok |-> outcome = "success",
                       wire |-> IF outcome = "success"
                                THEN simulate_paste_enigo(0).wire ELSE <<>>],
                      "idle")
       ELSE injector' = [injector EXCEPT !.pc = "idle",
                                         !.result = ALL_PASTE_METHODS_FAILED]
    /\ UNCHANGED <<clip_core, hk_vars, emoji>>

(* ------------------------------------------------------------------ *)
(* Environment: the user's copies and the polling monitor               *)
(* ------------------------------------------------------------------ *)
\* another application puts content on the OS clipboard
UserCopy(clip) ==
    /\ os_clipboard' = Some([content |-> clip, by |-> "user"])
    /\ UNCHANGED <<mgr_vars, next_id, ret, evicted, paste_vars, mon_last>>
    /\ UNCHANGED <<hk_vars, side_vars>>

\* one poll of the monitor: get_current_text / get_current_image read the OS
\* clipboard, a change of content is detected, and the content is handed to
\* add_text / add_image.  All of these take &mut self, so the poll waits
\* until no paste_item call holds the manager
MonitorPoll ==
    /\ pc = "idle"
    /\ IsSome(os_clipboard)
    /\ Some(Unwrap(os_clipboard).content) # mon_last
    /\ mon_last' = Some(Unwrap(os_clipboard).content)
    /\ IngestEffect(ingest(Self, Unwrap(os_clipboard).content, next_id))
    /\ UNCHANGED <<paste_vars, os_clipboard>>
    /\ UNCHANGED <<hk_vars, side_vars>>

(* ------------------------------------------------------------------ *)
(* Inputs                                                               *)
(* ------------------------------------------------------------------ *)
\* "a", "b", "ab"
TextA == <<97>>

TextB == <<98>>

TextAB == <<97, 98>>

\* " " (whitespace only)
TextBlank == <<32>>

\* "file:///win11-clipboard-history/gifs/x": a GIF cache URI
TextGifUri == FILE_URI_PREFIX \o <<47>> \o GIF_CACHE_MARKER \o <<120>>

\* "t<k>": pairwise distinct texts, none containing another
Text(k) == <<116>> \o Dec(k)

\* a 1x1 image, and the same bytes as a buffer too short for 2x1 dimensions
Image1 == ImageData(1, 1, <<1, 2, 3, 255>>)

ImageShort == ImageData(2, 1, <<1, 2, 3, 255>>)

Texts == {TextA, TextAB, TextBlank, TextGifUri}

Images == {Image1, ImageShort}

LiteralTexts == {TextA}

WriteOutcomes == {"ok", "open_failed", "write_failed"}

\* what the three keystroke mechanisms do in a session: uinput and enigo
\* succeed or fail, DISPLAY is set or not, and xdotool cannot be launched,
\* exits unsuccessfully or succeeds
TierOutcomes ==
    [uinput : BOOLEAN, enigo : BOOLEAN, display : BOOLEAN,
     xdotool : {"spawn_failed", "exit_failure", "success"}]

\* a call that would create an entry needs a fresh id within the bound
WithinIds(r, bound) == next_id <= bound \/ ~IsSome(r.ret)

(* ------------------------------------------------------------------ *)
(* Spec: every operation of the manager, operations serialized          *)
(* ------------------------------------------------------------------ *)
Next ==
    \/ \E text \in Texts :
        /\ WithinIds(add_text(Self, text, next_id), MaxItems)
        /\ AddText(text)
        /\ ProtoIngest(TextClip(text))
        /\ UNCHANGED <<armed, guarded, unpinned_seen>>
    \/ \E image \in Images :
        /\ WithinIds(add_image(Self, image, calculate_hash(image.bytes), next_id),
                     MaxItems)
        /\ AddImage(image)
        /\ ProtoIngest(ImageClip(image))
        /\ UNCHANGED <<armed, guarded, unpinned_seen>>
    \/ \E id \in 1..MaxItems :
        TogglePin(id) /\ ProtoOther /\ UNCHANGED <<armed, guarded, unpinned_seen>>
    \/ \E id \in 1..MaxItems :
        RemoveItem(id) /\ ProtoOther /\ UNCHANGED <<armed, guarded, unpinned_seen>>
    \/ Clear /\ ProtoOther /\ UNCHANGED <<armed, guarded, unpinned_seen>>
    \/ \E text \in LiteralTexts :
        /\ MarkTextAsPasted(text)
        /\ ProtoOther
        /\ UNCHANGED <<armed, guarded, unpinned_seen>>
    \/ \E i \in 1..Len(history) :
        /\ PasteMark(history[i])
        /\ ProtoPaste
        /\ UNCHANGED <<armed, guarded, unpinned_seen>>
    \/ \E outcome \in WriteOutcomes :
        /\ PasteWrite(outcome)
        /\ ProtoPaste
        /\ UNCHANGED <<armed, guarded, unpinned_seen>>
    \/ \E tiers \in TierOutcomes :
        /\ PasteKeystroke(tiers)
        /\ ProtoPaste
        /\ UNCHANGED <<armed, guarded, unpinned_seen>>

Spec == Init /\ [][Next]_vars

(* ------------------------------------------------------------------ *)
(* SpecAddText: sequences of add_text calls only                        *)
(* ------------------------------------------------------------------ *)
AddTextInputs == {TextA, TextB, TextAB, TextBlank}

NextAddText ==
    \E text \in AddTextInputs :
        /\ WithinIds(add_text(Self, text, next_id), MaxAdds)
        /\ AddText(text)
        /\ UNCHANGED <<proto, armed, guarded, unpinned_seen>>

SpecAddText == Init /\ [][NextAddText]_vars

(* ------------------------------------------------------------------ *)
(* SpecFill: add_text of pairwise distinct texts on an empty history    *)
(* ------------------------------------------------------------------ *)
NextFill ==
    /\ next_id <= MaxFill
    /\ AddText(Text(next_id))
    /\ UNCHANGED <<proto, armed, guarded, unpinned_seen>>

SpecFill == Init /\ [][NextFill]_vars

(* ------------------------------------------------------------------ *)
(* SpecLiteral: mark_text_as_pasted among the ingests and the edits     *)
(* ------------------------------------------------------------------ *)
LiteralInputs == {TextA, TextB, TextAB, TextBlank}

NextLiteral ==
    \/ \E text \in LiteralInputs :
        /\ MarkTextAsPasted(text)
        /\ LiteralMark(text)
        /\ UNCHANGED <<armed, guarded, unpinned_seen>>
    \/ \E text \in LiteralInputs :
        /\ WithinIds(add_text(Self, text, next_id), MaxLiteralItems)
        /\ AddText(text)
        /\ LiteralIngest(TextClip(text))
        /\ UNCHANGED <<armed, guarded, unpinned_seen>>
    \/ /\ WithinIds(add_image(Self, Image1, calculate_hash(Image1.bytes), next_id),
                    MaxLiteralItems)
       /\ AddImage(Image1)
       /\ LiteralIngest(ImageClip(Image1))
       /\ UNCHANGED <<armed, guarded, unpinned_seen>>
    \/ \E id \in 1..MaxLiteralItems :
        TogglePin(id) /\ UNCHANGED <<proto, armed, guarded, unpinned_seen>>
    \/ \E id \in 1..MaxLiteralItems :
        RemoveItem(id) /\ UNCHANGED <<proto, armed, guarded, unpinned_seen>>
    \/ Clear /\ UNCHANGED <<proto, armed, guarded, unpinned_seen>>

SpecLiteral == Init /\ [][NextLiteral]_vars

(* ------------------------------------------------------------------ *)
(* SpecPromote: add_text and add_image calls with pins and              *)
(* mark_text_as_pasted in between                                       *)
(* ------------------------------------------------------------------ *)
PromoteInputs == {TextA, TextB, TextAB}

NextPromote ==
    \/ \E text \in PromoteInputs :
        /\ WithinIds(add_text(Self, text, next_id), MaxPromoteItems)
        /\ AddText(text)
        /\ UNCHANGED <<proto, armed, guarded, unpinned_seen>>
    \/ /\ WithinIds(add_image(Self, Image1, calculate_hash(Image1.bytes), next_id),
                    MaxPromoteItems)
       /\ AddImage(Image1)
       /\ UNCHANGED <<proto, armed, guarded, unpinned_seen>>
    \/ \E id \in 1..MaxPromoteItems :
        TogglePin(id) /\ UNCHANGED <<proto, armed, guarded, unpinned_seen>>
    \/ \E text \in LiteralTexts :
        MarkTextAsPasted(text) /\ UNCHANGED <<proto, armed, guarded, unpinned_seen>>

SpecPromote == Init /\ [][NextPromote]_vars

(* ------------------------------------------------------------------ *)
(* SpecIngest: the ingests, blank and loopback texts among them, with   *)
(* tokens armed by paste_item and by mark_text_as_pasted                *)
(* ------------------------------------------------------------------ *)
IngestInputs == {TextA, TextB, TextAB, TextBlank, TextGifUri}

NextIngest ==
    \/ \E text \in IngestInputs :
        /\ WithinIds(add_text(Self, text, next_id), MaxIngestItems)
        /\ AddText(text)
        /\ LatestAdd(TextClip(text))
        /\ UNCHANGED <<armed, guarded, unpinned_seen>>
    \/ \E image \in Images :
        /\ WithinIds(add_image(Self, image, calculate_hash(image.bytes), next_id),
                     MaxIngestItems)
        /\ AddImage(image)
        /\ LatestAdd(ImageClip(image))
        /\ UNCHANGED <<armed, guarded, unpinned_seen>>
    \/ \E text \in {TextA, TextAB} :
        MarkTextAsPasted(text) /\ UNCHANGED <<proto, armed, guarded, unpinned_seen>>
    \/ \E i \in 1..Len(history) :
        PasteMark(history[i]) /\ UNCHANGED <<proto, armed, guarded, unpinned_seen>>
    \/ \E outcome \in WriteOutcomes :
        PasteWrite(outcome) /\ UNCHANGED <<proto, armed, guarded, unpinned_seen>>
    \/ \E tiers \in TierOutcomes :
        PasteKeystroke(tiers) /\ UNCHANGED <<proto, armed, guarded, unpinned_seen>>
    \/ \E id \in 1..MaxIngestItems :
        TogglePin(id) /\ UNCHANGED <<proto, armed, guarded, unpinned_seen>>
    \/ Clear /\ UNCHANGED <<proto, armed, guarded, unpinned_seen>>

SpecIngest == Init /\ [][NextIngest]_vars

(* ------------------------------------------------------------------ *)
(* SpecEdit: add_text and the three editing operations of the history,  *)
(* with no paste_item and no mark_text_as_pasted.  proto is phase 7 and *)
(* the text after an add_text call, and reset after any other call.     *)
(* ------------------------------------------------------------------ *)
EditInputs == {TextA, TextB, TextBlank}

NextEdit ==
    \/ \E text \in EditInputs :
        /\ WithinIds(add_text(Self, text, next_id), MaxItems)
        /\ AddText(text)
        /\ LatestAdd(TextClip(text))
        /\ UNCHANGED <<armed, guarded, unpinned_seen>>
    \/ \E id \in 1..MaxItems :
        TogglePin(id) /\ ProtoOther /\ UNCHANGED <<armed, guarded, unpinned_seen>>
    \/ \E id \in 1..MaxItems :
        RemoveItem(id) /\ ProtoOther /\ UNCHANGED <<armed, guarded, unpinned_seen>>
    \/ Clear /\ ProtoOther /\ UNCHANGED <<armed, guarded, unpinned_seen>>

SpecEdit == Init /\ [][NextEdit]_vars

(* ------------------------------------------------------------------ *)
(* SpecCap: the operations on a history close to MAX_HISTORY_SIZE.      *)
(* It starts from the state one of three call sequences leaves behind.  *)
(* ------------------------------------------------------------------ *)
\* the entry add_text(Text(k)) creates as the k-th entry
BaseItem(k, pinned) == [new_text(Text(k), k) EXCEPT !.pinned = pinned]

\* Text(from), ..., Text(to) as add_text leaves them: most recent first
BaseRun(to, from, pinned) ==
    [i \in 1..(to - from + 1) |-> BaseItem(to + 1 - i, pinned)]

\* the history after add_text(Text(1)), ..., add_text(Text(BaseLen)) with
\*   "plain":         nothing more;
\*   "all_pinned":    then toggle_pin of every entry;
\*   "second_pinned": toggle_pin of the second entry right after its insert,
\*                    so that the later entries go behind it, and toggle_pin
\*                    of the first entry at the end
CapScripts == {"plain", "all_pinned", "second_pinned"}

CapHistory(script) ==
    CASE script = "plain" -> BaseRun(BaseLen, 1, FALSE)
      [] script = "all_pinned" -> BaseRun(BaseLen, 1, TRUE)
      [] script = "second_pinned" ->
            <<BaseItem(2, TRUE)>> \o BaseRun(BaseLen, 3, FALSE)
                \o <<BaseItem(1, TRUE)>>

CapBase(script) ==
    [new EXCEPT !.history = CapHistory(script),
                !.last_added_text_hash = Some(calculate_hash(Text(BaseLen)))]

InitCap == \E script \in CapScripts : InitWith(CapBase(script), BaseLen + 1)

\* under SpecFill: the BaseLen add_text calls of the "plain" script leave
\* exactly CapBase("plain")
CapBasePlainIsFilled == next_id = BaseLen + 1 => Self = CapBase("plain")

CapTexts == {Text(1), Text(BaseLen + 1), Text(BaseLen + 2)}

CapIds == {1, 2, BaseLen + 1}

NextCap ==
    \/ \E text \in CapTexts :
        /\ WithinIds(add_text(Self, text, next_id), BaseLen + CapAdds)
        /\ AddText(text)
        /\ UNCHANGED <<proto, armed, guarded, unpinned_seen>>
    \/ /\ WithinIds(add_image(Self, Image1, calculate_hash(Image1.bytes), next_id),
                    BaseLen + CapAdds)
       /\ AddImage(Image1)
       /\ UNCHANGED <<proto, armed, guarded, unpinned_seen>>
    \/ \E id \in CapIds :
        TogglePin(id) /\ UnpinToggle /\ UNCHANGED <<proto, armed, guarded>>
    \/ \E id \in CapIds :
        RemoveItem(id) /\ UNCHANGED <<proto, armed, guarded, unpinned_seen>>
    \/ Clear /\ UNCHANGED <<proto, armed, guarded, unpinned_seen>>

SpecCap == InitCap /\ [][NextCap]_vars

(* ------------------------------------------------------------------ *)
(* SpecReplay: paste_item step by step, the user's copies, and the      *)
(* monitor polling on its own thread between the steps                  *)
(* ------------------------------------------------------------------ *)
ReplayClips == {TextClip(TextA), TextClip(TextAB), ImageClip(Image1)}

NextReplay ==
    \/ \E clip \in ReplayClips :
        UserCopy(clip) /\ GuardUserCopy /\ UNCHANGED <<proto, unpinned_seen>>
    \/ /\ IsSome(os_clipboard)
       /\ WithinIds(ingest(Self, Unwrap(os_clipboard).content, next_id),
                    MaxReplayItems)
       /\ MonitorPoll
       /\ GuardIngest
       /\ UNCHANGED <<proto, unpinned_seen>>
    \/ \E i \in 1..Len(history) :
        PasteMark(history[i]) /\ GuardMark /\ UNCHANGED <<proto, unpinned_seen>>
    \/ \E outcome \in WriteOutcomes :
        PasteWrite(outcome) /\ GuardWrite /\ UNCHANGED <<proto, unpinned_seen>>
    \/ \E tiers \in TierOutcomes :
        /\ PasteKeystroke(tiers)
        /\ UNCHANGED <<proto, armed, guarded, unpinned_seen>>

SpecReplay == Init /\ [][NextReplay]_vars

(* ------------------------------------------------------------------ *)
(* SpecEmoji: record_usage and restarts of the emoji manager.  The      *)
(* emojis recorded are the next one never seen, the one at the front,   *)
(* the one at the back and emoji 1; re-uses stop once the counts in the *)
(* list exceed the entries by MaxReuse, and a save fails only when the  *)
(* file is up to date.                                                  *)
(* ------------------------------------------------------------------ *)
RecordUsage(emoji_char, save_ok) ==
    /\ emoji' = record_usage(emoji, emoji_char, save_ok)
    /\ UNCHANGED <<clip_core, hk_vars, injector>>

EmojiRestart(load_ok) ==
    /\ emoji' = EmojiNew(emoji.disk, load_ok)
    /\ UNCHANGED <<clip_core, hk_vars, injector>>

EmojiInputs ==
    LET recent == emoji.recent
        chars == {recent[i].char : i \in 1..Len(recent)}
        fresh == IF chars = {} THEN 1
                 ELSE 1 + CHOOSE c \in chars : \A o \in chars : o <= c
        reuses == SumCounts(recent) - Len(recent)
    IN  {c \in {fresh} : c <= MaxEmojis}
        \cup {c \in {1} \cup (IF recent = <<>> THEN {}
                               ELSE {recent[1].char, recent[Len(recent)].char}) :
                 c \in chars => reuses < MaxReuse}

NextEmoji ==
    \/ \E emoji_char \in EmojiInputs, save_ok \in BOOLEAN :
        /\ save_ok \/ emoji.disk = emoji.recent
        /\ RecordUsage(emoji_char, save_ok)
    \/ \E load_ok \in BOOLEAN : EmojiRestart(load_ok)

SpecEmoji == Init /\ [][NextEmoji]_vars

(* ------------------------------------------------------------------ *)
(* SpecInject: calls of simulate_paste_keystroke, every step of every   *)
(* tier free to fail                                                    *)
(* ------------------------------------------------------------------ *)
NextInject ==
    \/ InjectCall
    \/ \E fail_at \in 0..14 : TryUinput(fail_at)
    \/ \E fail_at \in 0..4 : TryEnigo(fail_at)
    \/ \E display \in BOOLEAN,
          outcome \in {"spawn_failed", "exit_failure", "success"} :
        TryXdotool(display, outcome)

SpecInject == Init /\ [][NextInject]_vars

(* ------------------------------------------------------------------ *)
(* SpecHotkey: the listener threads, their input events and stop()      *)
(* ------------------------------------------------------------------ *)
InputEvents ==
    {KeyEvent(key, value) :
        key \in {"KEY_LEFTMETA", "KEY_RIGHTCTRL", "KEY_LEFTALT", "KEY_V",
                 "KEY_ESC", "KEY_A"},
        value \in {0, 1, 2}}
        \cup {SynEvent}

\* what one fetch_events call can return
Batches ==
    UNION {[1..n -> InputEvents] : n \in 1..MaxBatch}

\* the next step of the thread listening to device d, its reads returning
\* one of the given batches
ListenerNext(d, batches) ==
    \/ CheckRunning(d) /\ UNCHANGED held_by
    \/ \E events \in batches : FetchEvents(d, events) /\ UNCHANGED held_by
    \/ \E errno \in {"EAGAIN", "EIO"} : FetchError(d, errno) /\ UNCHANGED held_by
    \/ Backoff(d) /\ UNCHANGED held_by
    \/ HandleEvent(d) /\ ObserveStore(d)
    \/ LoadCtrl(d) /\ UNCHANGED held_by
    \/ LoadAlt(d) /\ UNCHANGED held_by

NextHotkey ==
    \/ \E d \in Devices : ListenerNext(d, Batches)
    \/ Stop /\ UNCHANGED held_by

SpecHotkey == Init /\ [][NextHotkey]_vars

\* every thread keeps being scheduled, and a fetch_events call that has been
\* made returns
StopBatches ==
    {<<KeyEvent("KEY_LEFTMETA", 1)>>, <<KeyEvent("KEY_LEFTMETA", 0)>>,
     <<KeyEvent("KEY_V", 1), KeyEvent("KEY_ESC", 1)>>}

NextStop ==
    \/ \E d \in Devices : ListenerNext(d, StopBatches)
    \/ Stop /\ UNCHANGED held_by

FairSpecHotkey ==
    /\ Init
    /\ [][NextStop]_vars
    /\ \A d \in Devices : WF_vars(ListenerNext(d, StopBatches))

(* ------------------------------------------------------------------ *)
(* Properties                                                           *)
(* ------------------------------------------------------------------ *)
NoToken(lpt, lpi) == lpt = None /\ lpi = None

\* the first non-pinned entry holds the content identified by key k
TopHolds(k) ==
    \E i \in 1..Len(history) :
        /\ ~history[i].pinned
        /\ \A j \in 1..(i - 1) : history[j].pinned
        /\ KeyOfItem(history[i]) = k

\* the repeat-memo is the hash of the text identified by key k
MemoHolds(k) ==
    k.type = "Text" /\ last_added_text_hash = Some(calculate_hash(k.key))

\* the entries of h that are not pinned
NonPinned(h) == {h[i] : i \in {j \in 1..Len(h) : ~h[j].pinned}}

\* no two non-pinned entries of the history hold the same text
NoDuplicateText ==
    \A i, j \in 1..Len(history) :
        /\ i # j
        /\ ~history[i].pinned /\ ~history[j].pinned
        /\ history[i].content.type = "Text" /\ history[j].content.type = "Text"
        => history[i].content.text # history[j].content.text

\* C1: after paste_item(e) has returned, the ingest of content identical to e
\* that directly follows creates no entry, leaves the history (entries and
\* order) as it was, and leaves no suppression token armed.
C1_ReplayThenIngestSuppressed ==
    [][proto.phase = 1 /\ proto'.phase = 2
       => /\ history' = history
          /\ ret' = None
          /\ NoToken(last_pasted_text', last_pasted_image_hash')]_vars

C1_Witness == proto.phase = 2 /\ proto.key.type = "Text" /\ Len(history) >= 2

\* C2 as stated: the second identical ingest after paste_item(e), the first
\* having been suppressed, always creates an entry, which the history holds.
C2_SecondIngestAlwaysAdded ==
    [][proto.phase = 2 /\ proto'.phase = 3
       => /\ IsSome(ret')
          /\ \E i \in 1..Len(history') : history'[i] = Unwrap(ret')]_vars

\* C2 amended: the second identical ingest after paste_item(e) is not rejected
\* by suppression (no token is armed when it runs); it creates an entry, which
\* the history then holds, exactly when the first non-pinned entry does not
\* already hold that content and, for a text, its hash is not the repeat-memo.
C2_SecondIngestAddedUnlessDuplicate ==
    [][proto.phase = 2 /\ proto'.phase = 3
       => /\ NoToken(last_pasted_text, last_pasted_image_hash)
          /\ IsSome(ret') <=> ~(TopHolds(proto.key) \/ MemoHolds(proto.key))
          /\ IsSome(ret') => \E i \in 1..Len(history') : history'[i] = Unwrap(ret')]_vars

C2_Witness == proto.phase = 3 /\ IsSome(ret) /\ Unwrap(ret).id = next_id - 1

\* C3 as stated: whenever the monitor ingests content that paste_item wrote to
\* the OS clipboard, the suppression token matching that content is armed.
C3_ReplayedContentAlwaysSuppressed ==
    [][mon_last' # mon_last /\ Unwrap(os_clipboard).by = "replay"
       => TokenActiveFor(Unwrap(os_clipboard).content)]_vars

\* C3 amended: paste_item arms the token before it writes the OS clipboard
\* (the token matching the content is armed in the state the write starts
\* from), and whenever the monitor ingests content a paste_item wrote, that
\* token is armed, unless an ingest has cleared a token or a later paste_item
\* has begun since that paste_item armed it (guarded is false then).
C3_ReplayedContentSuppressedWhileGuarded ==
    [][/\ pc = "marked" /\ pc' = "written"
          => TokenActiveFor(Unwrap(os_clipboard').content)
       /\ mon_last' # mon_last /\ guarded
          => TokenActiveFor(Unwrap(os_clipboard).content)]_vars

C3_Witness ==
    /\ guarded
    /\ pc = "idle"
    /\ paste_result = "ok"
    /\ mon_last # Some(Unwrap(os_clipboard).content)
    /\ TokenActiveFor(Unwrap(os_clipboard).content)

\* C4: after every add_text call of a sequence of add_text calls, no two
\* non-pinned entries hold identical text.
C4_AddTextKeepsTextsUnique == NoDuplicateText

C4_Witness ==
    /\ Len(history) >= 2
    /\ next_id > Len(history) + 1
    /\ IsSome(ret)

\* C5: in every reachable state of the manager, whatever operations led to
\* it, no two non-pinned entries hold identical text.
C5_NonPinnedTextsUnique ==
    \A i, j \in 1..Len(history) :
        (i < j /\ ~history[i].pinned /\ ~history[j].pinned
            /\ history[i].content.type = "Text")
        => history[i].content # history[j].content

\* C6: after every operation the number of non-pinned entries is at most
\* MAX_HISTORY_SIZE.
C6_NonPinnedWithinCap == Cardinality(NonPinned(history)) <= MAX_HISTORY_SIZE

C6_Witness ==
    /\ evicted # <<>>
    /\ Cardinality(NonPinned(history)) = MAX_HISTORY_SIZE

\* C7: a pinned entry stays in the history, unchanged, across every step
\* other than remove_item and toggle_pin of its own id: add_text, add_image,
\* their eviction and duplicate removal, and clear keep it.
C7_PinnedEntriesKept ==
    [][\A i \in 1..Len(history) :
          history[i].pinned
          => \/ \E j \in 1..Len(history') : history'[j] = history[i]
             \/ RemoveItem(history[i].id)
             \/ TogglePin(history[i].id)]_vars

C7_Witness ==
    /\ evicted # <<>>
    /\ Len(history) = MAX_HISTORY_SIZE
    /\ history[Len(history)].pinned
    /\ history[1].pinned

\* C8: after n > MAX_HISTORY_SIZE add_text calls of pairwise distinct texts
\* on an empty history, the history holds exactly the MAX_HISTORY_SIZE most
\* recently added texts, most recent first, and the call just made evicted
\* the oldest text still held.
C8_FillKeepsMostRecent ==
    LET n == next_id - 1
    IN  n > MAX_HISTORY_SIZE
        => /\ Len(history) = MAX_HISTORY_SIZE
           /\ \A i \in 1..MAX_HISTORY_SIZE :
                 history[i].content = TextContent(Text(n + 1 - i))
           /\ Len(evicted) = 1
           /\ evicted[1].content = TextContent(Text(n - MAX_HISTORY_SIZE))

C8_Witness == next_id - 1 > MAX_HISTORY_SIZE + 1 /\ Len(history) = MAX_HISTORY_SIZE

\* the entry evicted by the step is not pinned and was inserted before every
\* non-pinned entry the history holds after the step
EvictsLeastRecent ==
    /\ Len(evicted') = 1
    /\ ~evicted'[1].pinned
    /\ \A e \in NonPinned(history') : evicted'[1].id < e.id

\* C9 as stated: whenever an insert evicts, the evicted entry is the least
\* recently inserted non-pinned entry, whatever operations came before.
C9_EvictsLeastRecentAlways == [][evicted' # <<>> => EvictsLeastRecent]_vars

\* the entry evicted by the step is the last non-pinned entry in list order:
\* an entry the history held with only pinned entries behind it, or the entry
\* just inserted when every entry the history held was pinned
EvictsLastNonPinned ==
    LET e == evicted'[1]
    IN  \/ /\ Some(e) = ret'
           /\ \A i \in 1..Len(history) : history[i].pinned
        \/ \E i \in 1..Len(history) :
              /\ history[i] = e
              /\ ~e.pinned
              /\ \A j \in (i + 1)..Len(history) : history[j].pinned

\* C9 amended: whenever an insert evicts, the evicted entry is the last
\* non-pinned entry in list order; it is the least recently inserted
\* non-pinned entry for every prior sequence of add, pin, remove and clear
\* operations in which no entry has been unpinned.
C9_EvictsLeastRecentWithoutUnpin ==
    [][evicted' # <<>>
       => /\ EvictsLastNonPinned
          /\ ~unpinned_seen => EvictsLeastRecent]_vars

C9_Witness ==
    /\ evicted # <<>>
    /\ ~unpinned_seen
    /\ \E i \in 1..Len(history) : history[i].pinned
    /\ NonPinned(history) # {}

\* every entry of h is pinned
AllPinned(h) == \A i \in 1..Len(h) : h[i].pinned

\* the whole history, pinned entries included, is within MAX_HISTORY_SIZE
\* (an invariant of SpecCap)
HistoryWithinCap == Len(history) <= MAX_HISTORY_SIZE

\* C10: when all entries are pinned the cap is not enforced: an insert into a
\* full history of pinned entries makes the history longer than
\* MAX_HISTORY_SIZE.
C10_AllPinnedExceedsCap ==
    [][/\ AllPinned(history)
       /\ Len(history) >= MAX_HISTORY_SIZE
       /\ next_id' > next_id
       => Len(history') > MAX_HISTORY_SIZE]_vars

\* the elements of a sequence
Range(s) == {s[i] : i \in 1..Len(s)}

\* t holds entries of s only, in the order s holds them
KeepsOrderOf(t, s) == t = SelectSeq(s, LAMBDA e : e \in Range(t))

\* the step created an entry (ret' is that entry)
Inserts == next_id' = next_id + 1

\* some entry of h is not pinned
HasNonPinned(h) == \E i \in 1..Len(h) : ~h[i].pinned

C12_TogglePinFlipsFlagOnly ==
    [][\A id \in 1..MaxItems :
          TogglePin(id)
          => /\ Len(history') = Len(history)
             /\ \A i \in 1..Len(history) :
                   history'[i] = IF history[i].id = id
                                 THEN [history[i] EXCEPT !.pinned = ~@]
                                 ELSE history[i]
             /\ last_added_text_hash' = last_added_text_hash
             /\ last_pasted_text' = last_pasted_text
             /\ last_pasted_image_hash' = last_pasted_image_hash
             /\ (\A i \in 1..Len(history) : history[i].id # id)
                   => history' = history /\ ret' = None]_vars

C12_Witness ==
    /\ IsSome(ret)
    /\ Unwrap(ret).pinned
    /\ Len(history) >= 3
    /\ history[2] = Unwrap(ret)
    /\ IsSome(last_pasted_text)
    /\ IsSome(last_added_text_hash)

\* some keystroke mechanism delivers the paste combination
SomeTierSucceeds(tiers) ==
    \/ tiers.uinput
    \/ tiers.enigo
    \/ tiers.display /\ tiers.xdotool = "success"

Tokens == <<last_pasted_text, last_pasted_image_hash>>

\* C14: the token paste_item arms is armed at every later step of the call
\* and when it returns, with Ok or with any error; after that it is left as
\* it is by every add_text / add_image whose content it does not match, by
\* toggle_pin, remove_item and clear, and changes only through a matching
\* ingest, the next paste_item or mark_text_as_pasted.
C14_TokenStaysArmedUntilMatchOrReplay ==
    [][/\ pc = "idle" /\ pc' = "marked"
             => LET item == Unwrap(paste_arg')
                IN  IF item.content.type = "Text"
                    THEN last_pasted_text' = Some(item.content.text)
                    ELSE last_pasted_image_hash' = extract_image_hash(item)
                         /\ IsSome(last_pasted_image_hash')
       /\ pc # "idle" => Tokens' = Tokens
       /\ \A text \in Texts :
             AddText(text) /\ ~TokenActiveFor(TextClip(text)) => Tokens' = Tokens
       /\ \A image \in Images :
             AddImage(image) /\ ~TokenActiveFor(ImageClip(image))
             => Tokens' = Tokens
       /\ \A id \in 1..MaxItems :
             TogglePin(id) \/ RemoveItem(id) => Tokens' = Tokens
       /\ Clear => Tokens' = Tokens
       /\ Tokens' # Tokens
             => \/ pc = "idle" /\ pc' = "marked"
                \/ \E text \in LiteralTexts : MarkTextAsPasted(text)
                \/ \E text \in Texts :
                      AddText(text) /\ TokenActiveFor(TextClip(text))
                \/ \E image \in Images :
                      AddImage(image) /\ TokenActiveFor(ImageClip(image))]_vars

\* the image token of a replay that has returned is still armed although the
\* replayed image entry has since left the history
C14_Witness ==
    /\ pc = "idle"
    /\ IsSome(last_pasted_image_hash)
    /\ Len(history) = 1
    /\ history[1].pinned
    /\ history[1].content.type = "Text"
    /\ next_id > 3

\* add_text would pass the blank and loopback-marker checks
PassesMarkerChecks(text) ==
    /\ ~TrimIsEmpty(text)
    /\ ~(Contains(text, FILE_URI_PREFIX) /\ Contains(text, GIF_CACHE_MARKER))

\* the first non-pinned entry is an image with this fingerprint
TopHasImageHash(hash) ==
    /\ IsSome(FirstNotPinned(history))
    /\ extract_image_hash(Unwrap(FirstNotPinned(history))) = Some(hash)

\* C15: a token is one-shot.  The ingest it rejects as self-originated clears
\* it in the same call, so one arming rejects at most one ingest; while a
\* token is clear no ingest is rejected on its account (a rejected text is
\* blank, a loopback marker, the repeat-memo's text or the first non-pinned
\* entry's text; a rejected image is unencodable or has the first non-pinned
\* entry's fingerprint); and a clear token becomes armed only through
\* paste_item or mark_text_as_pasted.
C15_TokenIsOneShot ==
    [][/\ \A text \in Texts :
             AddText(text) /\ PassesMarkerChecks(text)
                           /\ TokenActiveFor(TextClip(text))
             => ret' = None /\ last_pasted_text' = None
       /\ \A image \in Images :
             AddImage(image) /\ TokenActiveFor(ImageClip(image))
             => ret' = None /\ last_pasted_image_hash' = None
       /\ \A text \in Texts :
             AddText(text) /\ last_pasted_text = None /\ ret' = None
             => \/ ~PassesMarkerChecks(text)
                \/ last_added_text_hash = Some(calculate_hash(text))
                \/ is_duplicate_text(Self, text)
       /\ \A image \in Images :
             AddImage(image) /\ last_pasted_image_hash = None /\ ret' = None
             => \/ convert_image_to_base64(image) = None
                \/ TopHasImageHash(calculate_hash(image.bytes))
       /\ last_pasted_text = None /\ last_pasted_text' # None
             => \/ pc' = "marked"
                \/ \E text \in LiteralTexts : MarkTextAsPasted(text)
       /\ last_pasted_image_hash = None /\ last_pasted_image_hash' # None
             => pc' = "marked"]_vars

\* the image ingest that directly followed the replay of that image was
\* rejected and left no token armed
C15_Witness ==
    /\ proto.phase = 2
    /\ proto.key.type = "Image"
    /\ ret = None
    /\ NoToken(last_pasted_text, last_pasted_image_hash)

\* C16: mark_text_as_pasted(t) sets the text token to t and the repeat-memo
\* to the hash of t and changes neither the history nor the OS clipboard;
\* the next ingest, when it is of t, and every ingest of t that follows with
\* no ingest of other content in between, returns no entry and leaves the
\* history as it was.
C16_MarkedLiteralNotIngested ==
    [][/\ \A text \in LiteralInputs :
             MarkTextAsPasted(text)
             => /\ last_pasted_text' = Some(text)
                /\ last_added_text_hash' = Some(calculate_hash(text))
                /\ history' = history
                /\ os_clipboard' = os_clipboard
       /\ \A text \in LiteralInputs :
             /\ AddText(text)
             /\ proto.phase \in {4, 5, 6}
             /\ proto.key = KeyOfClip(TextClip(text))
             => ret' = None /\ history' = history]_vars

\* the marked text was ingested at least twice in a row, is in no entry, and
\* the history holds other entries
C16_Witness ==
    /\ proto.phase = 6
    /\ proto.key = KeyOfClip(TextClip(TextA))
    /\ Len(history) >= 2
    /\ \A i \in 1..Len(history) : ~IsText(history[i], TextA)

\* the ids of the entries of h
Ids(h) == {h[i].id : i \in 1..Len(h)}

\* this step is remove_item(id) for the id of entry e
LeavesByRemove(e) == RemoveItem(e.id)

\* this step is clear() and entry e is not pinned
LeavesByClear(e) == Clear /\ ~e.pinned

\* this step pushed the history over MAX_HISTORY_SIZE and
\* enforce_history_limit dropped entry e
LeavesByEviction(e) ==
    /\ \E i \in 1..Len(evicted') : evicted'[i].id = e.id
    /\ Len(history') = MAX_HISTORY_SIZE

\* this step is add_text of the text non-pinned entry e holds, and a fresh
\* entry with that text was created in its place
LeavesByPromotion(e) ==
    /\ e.content.type = "Text"
    /\ ~e.pinned
    /\ AddText(e.content.text)
    /\ IsSome(ret')
    /\ IsText(Unwrap(ret'), e.content.text)
    /\ Unwrap(ret').id # e.id

\* C17 as stated: an entry of the history is missing from the next state's
\* history only after remove_item of its id, after clear() when it is not
\* pinned, or when enforce_history_limit evicted it.
C17_LeavesOnlyByRemoveClearEviction ==
    [][\A i \in 1..Len(history) :
          history[i].id \notin Ids(history')
          => \/ LeavesByRemove(history[i])
             \/ LeavesByClear(history[i])
             \/ LeavesByEviction(history[i])]_vars

\* C17: an entry of the history is missing from the next state's history
\* only after remove_item of its id, after clear() when it is not pinned,
\* when enforce_history_limit evicted it, or when add_text of its own text
\* replaced it, a non-pinned entry, by a fresh entry (promotion).
C17_LeavesOnlyByRemoveClearEvictionPromotion ==
    [][\A i \in 1..Len(history) :
          history[i].id \notin Ids(history')
          => \/ LeavesByRemove(history[i])
             \/ LeavesByClear(history[i])
             \/ LeavesByEviction(history[i])
             \/ LeavesByPromotion(history[i])]_vars

\* the first add_text on the full-length base history re-added the text of
\* its oldest entry: that entry is gone though nothing was evicted
C17_Witness ==
    /\ IsSome(ret)
    /\ IsText(Unwrap(ret), Text(1))
    /\ history[1] = Unwrap(ret)
    /\ next_id = BaseLen + 2
    /\ Len(history) = BaseLen
    /\ evicted = <<>>
    /\ 1 \notin Ids(history)

\* a non-pinned entry behind the first non-pinned one holds this text
HeldBehindFirstNonPinned(text) ==
    \E i, j \in 1..Len(history) :
        /\ j < i
        /\ ~history[j].pinned
        /\ ~history[i].pinned
        /\ IsText(history[i], text)

\* the step removed the first non-pinned entry holding this text, put a
\* fresh entry holding it at the first non-pinned slot, returned that entry
\* and left every other entry where it was relative to the others
Promoted(text) ==
    LET old == CHOOSE i \in 1..Len(history) :
                   /\ ~history[i].pinned /\ IsText(history[i], text)
                   /\ \A j \in 1..(i - 1) :
                         history[j].pinned \/ ~IsText(history[j], text)
        rest == RemoveAt(history, old)
        pos == CHOOSE i \in 1..Len(rest) :
                   ~rest[i].pinned /\ \A j \in 1..(i - 1) : rest[j].pinned
    IN  /\ IsSome(ret')
        /\ IsText(Unwrap(ret'), text)
        /\ Unwrap(ret').id = next_id
        /\ ~Unwrap(ret').pinned
        /\ Len(history') = Len(history)
        /\ history'[pos] = Unwrap(ret')
        /\ RemoveAt(history', pos) = rest

\* C18 as stated: add_text of a text held by a non-pinned entry behind the
\* first non-pinned one always promotes it.
C18_ReAddAlwaysPromotes ==
    [][\A text \in PromoteInputs :
          AddText(text) /\ HeldBehindFirstNonPinned(text)
          => Promoted(text)]_vars

\* C18: add_text of a text held by a non-pinned entry behind the first
\* non-pinned one promotes it whenever the call gets past its rejections
\* (blank, loopback marker, suppression token, repeat-memo, first non-pinned
\* entry holding the same text); add_text("a"), add_text("b"), add_text("a")
\* on an empty history then leaves ["a", "b"].
C18_ReAddPromotesWhenAccepted ==
    [][\A text \in PromoteInputs :
          /\ AddText(text)
          /\ HeldBehindFirstNonPinned(text)
          /\ PassesMarkerChecks(text)
          /\ ~TokenActiveFor(TextClip(text))
          /\ last_added_text_hash # Some(calculate_hash(text))
          /\ ~TopHolds(KeyOfClip(TextClip(text)))
          => Promoted(text)]_vars

\* add_text("a"), add_text("b"), add_text("a") from the empty history
C18_Witness ==
    /\ next_id = 4
    /\ Len(history) = 2
    /\ IsText(history[1], TextA) /\ history[1].id = 3
    /\ IsText(history[2], TextB) /\ history[2].id = 2
    /\ ret = Some(history[1])

\* listener d is about to handle this event: it is the next one of its batch
Handles(d, event) ==
    /\ listener[d].pc = "events"
    /\ listener[d].events # <<>>
    /\ Head(listener[d].events) = event

\* listener d takes a step
Steps(d) == listener'[d] # listener[d]

\* C19: a listener hands Toggle to the callback exactly at the end of its
\* handling of a V event of value 1, and only if the super flag was set when
\* it read it, or the ctrl flag and the alt flag were set when it read them;
\* each such press yields one Toggle, a V press that reads neither yields
\* nothing, and a V release or repeat is not handled as a press.
C19_ToggleOnQualifiedVPress ==
    [][/\ \A d \in Devices :
             /\ Steps(d) /\ Handles(d, KeyEvent("KEY_V", 1))
                   => /\ listener'[d].pc = "load_ctrl"
                      /\ listener'[d].super_down = super_pressed
                      /\ emitted' = emitted
             /\ Steps(d) /\ listener[d].pc = "events"
                        /\ ~Handles(d, KeyEvent("KEY_V", 1))
                   => listener'[d].pc \in {"events", "loop"}
                      /\ "Toggle" \notin {emitted'[i] : i \in Len(emitted) + 1..Len(emitted')}
             /\ Steps(d) /\ listener[d].pc = "load_ctrl"
                   => /\ listener'[d].pc = "load_alt"
                      /\ listener'[d].ctrl_down = ctrl_pressed
                      /\ listener'[d].super_down = listener[d].super_down
                      /\ emitted' = emitted
             /\ Steps(d) /\ listener[d].pc = "load_alt"
                   => /\ listener'[d].pc = "events"
                      /\ emitted' =
                            IF \/ listener[d].super_down
                               \/ listener[d].ctrl_down /\ alt_pressed
                            THEN Append(emitted, "Toggle")
                            ELSE emitted
       /\ emitted' # emitted => \E d \in Devices : Steps(d)]_vars

\* ctrl, alt and V were pressed, in that order, and one Toggle was emitted
C19_Witness ==
    /\ emitted = <<"Toggle">>
    /\ fetched = 3
    /\ ~super_pressed
    /\ ctrl_pressed
    /\ alt_pressed
    /\ \A d \in Devices : listener[d].events = <<>>

\* C20: a listener hands Close to the callback exactly when it handles an
\* Escape event of value 1, once per such event and whatever the modifier
\* flags are; no other step of any listener emits Close.
C20_CloseOnEveryEscapePress ==
    [][/\ \A d \in Devices :
             Steps(d) /\ Handles(d, KeyEvent("KEY_ESC", 1))
             => emitted' = Append(emitted, "Close")
       /\ emitted' # emitted /\ emitted'[Len(emitted')] = "Close"
             => /\ emitted' = Append(emitted, "Close")
                /\ \E d \in Devices :
                      Steps(d) /\ Handles(d, KeyEvent("KEY_ESC", 1))]_vars

\* Escape was pressed while the super flag was set by an earlier press
C20_Witness ==
    /\ emitted = <<"Close">>
    /\ super_pressed
    /\ fetched = 2

\* C21: the modifier flags are shared by the listener threads.  When a
\* listener handles a V press, a modifier whose latest press or release was
\* a press counts as held whichever device's thread handled that press:
\* super held at the read of the super flag yields Toggle, and so do ctrl
\* held at the read of the ctrl flag together with alt held at the read of
\* the alt flag.
C21_ModifiersAggregateAcrossDevices ==
    [][\A d \in Devices :
          /\ Steps(d) /\ Handles(d, KeyEvent("KEY_V", 1)) /\ held_by.super # 0
                => listener'[d].super_down
          /\ Steps(d) /\ listener[d].pc = "load_ctrl" /\ held_by.ctrl # 0
                => listener'[d].ctrl_down
          /\ Steps(d) /\ listener[d].pc = "load_alt"
                     /\ \/ listener[d].super_down
                        \/ listener[d].ctrl_down /\ held_by.alt # 0
                => emitted' = Append(emitted, "Toggle")]_vars

\* ctrl was pressed on device 1, alt on device 2, then V: one Toggle
C21_Witness ==
    /\ emitted = <<"Toggle">>
    /\ held_by.super = 0 /\ held_by.ctrl = 1 /\ held_by.alt = 2
    /\ fetched = 3
    /\ \A d \in Devices : listener[d].events = <<>> /\ listener[d].pc # "load_alt"

\* C22: running, once false, stays false; after that a thread that is not
\* standing at its fetch_events call never reaches one again, so it makes at
\* most the one read it had already decided on; a thread that has left its
\* loop takes no step and emits nothing; and every thread, given that it is
\* scheduled and its reads return, ends up stopped.
C22_StopReachesEveryListener ==
    /\ [][/\ ~running => ~running'
          /\ \A d \in Devices :
                /\ ~running /\ listener[d].pc # "fetch"
                      => listener'[d].pc # "fetch"
                /\ listener[d].pc = "stopped" => listener'[d] = listener[d]
          /\ emitted' # emitted
                => \E d \in Devices : Steps(d) /\ listener[d].pc # "stopped"]_vars
    /\ \A d \in Devices : ~running ~> listener[d].pc = "stopped"

\* both threads have stopped after events were handled and actions emitted
C22_Witness ==
    /\ ~running
    /\ \A d \in Devices : listener[d].pc = "stopped"
    /\ fetched = MaxKeyEvents
    /\ emitted # <<>>

\* C23: within one call of simulate_paste_keystroke the tiers tried are a
\* prefix of uinput, enigo, xdotool; every tier tried before the last one
\* tried has failed, so nothing is tried after a success; and once the last
\* tier tried has succeeded the call has returned Ok, as it has when uinput
\* failed and enigo succeeded, xdotool left untried.
C23_TiersInStrictOrderUntilFirstSuccess ==
    LET tried == injector.attempted
    IN  /\ Len(tried) <= 3
        /\ \A i \in 1..Len(tried) :
              /\ tried[i].tier = <<"uinput", "enigo", "xdotool">>[i]
              /\ i < Len(tried) => ~tried[i].ok
        /\ tried # <<>> /\ tried[Len(tried)].ok
              => injector.pc = "idle" /\ injector.result = "ok"
        /\ injector.pc = "enigo" => Len(tried) = 1
        /\ injector.pc = "xdotool" => Len(tried) = 2

\* uinput failed, enigo succeeded, the call returned Ok without xdotool
C23_Witness ==
    /\ injector.pc = "idle"
    /\ injector.result = "ok"
    /\ injector.attempted =
          <<[tier |-> "uinput", ok |-> FALSE], [tier |-> "enigo", ok |-> TRUE]>>

\* C24: a tier that completes without error makes the call return Ok at once;
\* a failing uinput or enigo tier returns nothing yet; the xdotool tier is run
\* exactly when DISPLAY is set, and the call ends with "All paste methods
\* failed" when that tier is skipped, cannot be launched or exits
\* unsuccessfully, which is the only way the call returns that error.
C24_OkOnFirstSuccessErrorOnlyWhenAllFail ==
    [][/\ \A fail_at \in 0..14 :
             TryUinput(fail_at)
             => IF fail_at = 0
                THEN injector'.pc = "idle" /\ injector'.result = "ok"
                ELSE injector'.pc = "enigo" /\ injector'.result = "none"
       /\ \A fail_at \in 0..4 :
             TryEnigo(fail_at)
             => IF fail_at = 0
                THEN injector'.pc = "idle" /\ injector'.result = "ok"
                ELSE injector'.pc = "xdotool" /\ injector'.result = "none"
       /\ \A display \in BOOLEAN,
             outcome \in {"spawn_failed", "exit_failure", "success"} :
             TryXdotool(display, outcome)
             => /\ injector'.pc = "idle"
                /\ Len(injector'.attempted) = IF display THEN 3 ELSE 2
                /\ injector'.result =
                      IF display /\ outcome = "success" THEN "ok"
                      ELSE ALL_PASTE_METHODS_FAILED
                /\ injector'.result =
                      simulate_paste_keystroke(
                          [uinput |-> FALSE, enigo |-> FALSE,
                           display |-> display, xdotool |-> outcome])
       /\ injector'.result = ALL_PASTE_METHODS_FAILED
             /\ injector.result # ALL_PASTE_METHODS_FAILED
             => /\ injector.pc = "xdotool"
                /\ \A i \in 1..Len(injector'.attempted) :
                      ~injector'.attempted[i].ok]_vars

\* DISPLAY unset: uinput and enigo failed, xdotool was skipped, the call
\* returned the error
C24_Witness ==
    /\ injector.pc = "idle"
    /\ injector.result = ALL_PASTE_METHODS_FAILED
    /\ Len(injector.attempted) = 2

\* the chars of a recent list
Chars(recent) == {recent[i].char : i \in 1..Len(recent)}

\* the list without its entries for char c
Without(recent, c) == SelectSeq(recent, LAMBDA e : e.char # c)

\* C25: the recent list never holds more than MAX_RECENT_EMOJIS entries, and
\* recording an emoji that is not in a full list puts it at the front and
\* drops the last entry, the least recently used one.
C25_RecentHoldsAtMostTwentyEvictingTheLast ==
    [][/\ Len(emoji.recent) <= MAX_RECENT_EMOJIS
       /\ Len(emoji'.recent) <= MAX_RECENT_EMOJIS
       /\ \A c \in EmojiInputs, save_ok \in BOOLEAN :
             /\ c \notin Chars(emoji.recent)
             /\ Len(emoji.recent) = MAX_RECENT_EMOJIS
             /\ RecordUsage(c, save_ok)
             => /\ Len(emoji'.recent) = MAX_RECENT_EMOJIS
                /\ emoji'.recent[1].char = c
                /\ Tail(emoji'.recent)
                      = SubSeq(emoji.recent, 1, MAX_RECENT_EMOJIS - 1)]_vars

\* the 22nd emoji has just been recorded into a full list: emojis 1 and 2
\* have been evicted
C25_Witness ==
    /\ Len(emoji.recent) = MAX_RECENT_EMOJIS
    /\ emoji.recent[1].char = MaxEmojis
    /\ emoji.recent[MAX_RECENT_EMOJIS].char = MaxEmojis - MAX_RECENT_EMOJIS + 1
    /\ emoji.disk = emoji.recent

\* C26: record_usage of an emoji that is in the list leaves the list as long
\* as it was, with that emoji's entry at the front, its use_count one higher,
\* followed by the other entries as they were; record_usage of an emoji that
\* is not in the list puts an entry with use_count 1 at the front, followed
\* by the old entries in their order; no emoji ever has two entries.
C26_RecordUsageMovesToFrontAndCountsOnce ==
    [][/\ \A i, j \in 1..Len(emoji.recent) :
             emoji.recent[i].char = emoji.recent[j].char => i = j
       /\ \A c \in EmojiInputs, save_ok \in BOOLEAN :
             RecordUsage(c, save_ok)
             => IF c \in Chars(emoji.recent)
                THEN \E i \in 1..Len(emoji.recent) :
                        /\ emoji.recent[i].char = c
                        /\ emoji'.recent
                              = <<[char |-> c,
                                   use_count |-> emoji.recent[i].use_count + 1]>>
                                \o Without(emoji.recent, c)
                        /\ Len(emoji'.recent) = Len(emoji.recent)
                ELSE /\ emoji'.recent[1] = [char |-> c, use_count |-> 1]
                     /\ \E n \in {Len(emoji.recent), Len(emoji.recent) - 1} :
                           Tail(emoji'.recent) = SubSeq(emoji.recent, 1, n)]_vars

\* the scenario of test_record_usage: emoji 1, emoji 2, emoji 1 again
C26_Witness ==
    emoji.recent = <<[char |-> 1, use_count |-> 2], [char |-> 2, use_count |-> 1]>>

\* the latest add call was add_text of this text
LatestAddWasText(text) ==
    proto = [phase |-> 7, key |-> KeyOfClip(TextClip(text))]

\* C27: add_text of a text that is empty or all whitespace, or that contains
\* both the file URI prefix and the GIF cache path, returns None and leaves
\* the history, the repeat-memo, the text token and the image token as they
\* were, whether or not a token is armed.
C27_BlankAndLoopbackTextsChangeNothing ==
    [][\A text \in IngestInputs :
          AddText(text) /\ ~PassesMarkerChecks(text)
          => ret' = None /\ UNCHANGED mgr_vars]_vars

\* the GIF cache URI, which contains the armed text token "a", has just been
\* offered; both tokens are still armed
C27_Witness ==
    /\ LatestAddWasText(TextGifUri)
    /\ last_pasted_text = Some(TextA)
    /\ IsSome(last_pasted_image_hash)
    /\ Contains(TextGifUri, TextA)

\* the text token is armed with a text that this text equals or contains
TextTokenMatches(text) ==
    /\ IsSome(last_pasted_text)
    /\ (text = Unwrap(last_pasted_text) \/ Contains(text, Unwrap(last_pasted_text)))

\* C28: for a text that is neither blank nor a loopback marker, add_text
\* returns None, clears the text token and changes nothing else when the
\* armed text token equals the text or occurs in it; in every other case the
\* call leaves the text token as it was, so an armed token that does not
\* match stays armed and add_text clears a token in no other way.
C28_TextTokenRejectsEqualOrContaining ==
    [][\A text \in IngestInputs :
          AddText(text) /\ PassesMarkerChecks(text)
          => IF TextTokenMatches(text)
             THEN /\ ret' = None
                  /\ last_pasted_text' = None
                  /\ UNCHANGED <<history, last_pasted_image_hash,
                                 last_added_text_hash>>
             ELSE last_pasted_text' = last_pasted_text]_vars

\* "ab" has been rejected on account of the token "a": it is neither in the
\* history nor in the repeat-memo, and the token is clear
C28_Witness ==
    /\ LatestAddWasText(TextAB)
    /\ ret = None
    /\ last_pasted_text = None
    /\ last_added_text_hash = Some(calculate_hash(TextA))
    /\ history = <<>>

\* add_text of this text gets past the blank, marker and suppression checks
PassesSkipChecks(text) == PassesMarkerChecks(text) /\ ~TextTokenMatches(text)

\* C29: an add_text that gets past the blank, marker and suppression checks
\* returns None with the history, the memo and the tokens unchanged when the
\* hash of its text equals the repeat-memo, and otherwise gets past the repeat
\* check and leaves the hash of its text in the memo.  The memo is one slot:
\* it changes only in such an add_text and in mark_text_as_pasted, so it holds
\* the hash recorded last, and a text whose hash differs from it, as in an
\* alternation of two texts, is never rejected as a repeat.
C29_RepeatIsTheHashRecordedLast ==
    [][/\ \A text \in IngestInputs :
             AddText(text) /\ PassesSkipChecks(text)
             => IF last_added_text_hash = Some(calculate_hash(text))
                THEN ret' = None /\ UNCHANGED mgr_vars
                ELSE /\ last_added_text_hash' = Some(calculate_hash(text))
                     /\ ret' = None
                           => TopHolds(KeyOfClip(TextClip(text)))
       /\ last_added_text_hash' # last_added_text_hash
             => \E text \in IngestInputs :
                   /\ last_added_text_hash' = Some(calculate_hash(text))
                   /\ \/ AddText(text) /\ PassesSkipChecks(text)
                      \/ MarkTextAsPasted(text)]_vars

\* add_text("a"), add_image, add_text("a"): the third call met the hash of
\* "a" in the memo and changed nothing, and "b" would not be a repeat
C29_Witness ==
    /\ LatestAddWasText(TextA)
    /\ ret = None
    /\ last_added_text_hash = Some(calculate_hash(TextA))
    /\ NoToken(last_pasted_text, last_pasted_image_hash)
    /\ Len(history) = 2
    /\ history[1].content.type = "Image"
    /\ IsText(history[2], TextA)
    /\ add_text(Self, TextB, next_id).ret # None

\* C29 as stated: an add_text that gets past the blank, marker and
\* suppression checks meets a memo equal to the hash of its text exactly when
\* the immediately preceding add call was add_text of a text with that hash.
C29_RepeatIsThePrecedingAddCall ==
    [][\A text \in IngestInputs :
          AddText(text) /\ PassesSkipChecks(text)
          => (last_added_text_hash = Some(calculate_hash(text))
              <=> /\ proto.phase = 7
                  /\ proto.key.type = "Text"
                  /\ calculate_hash(proto.key.key) = calculate_hash(text))]_vars

\* C30: an add_text that gets past the blank, marker, suppression and repeat
\* checks while the first non-pinned entry holds its text returns None and
\* leaves the history and the tokens as they were, and the memo holds the
\* hash of the text afterwards.
C30_DuplicateOfFirstNonPinnedOnlySetsMemo ==
    [][\A text \in IngestInputs :
          /\ AddText(text)
          /\ PassesSkipChecks(text)
          /\ last_added_text_hash # Some(calculate_hash(text))
          /\ TopHolds(KeyOfClip(TextClip(text)))
          => /\ ret' = None
             /\ history' = history
             /\ last_added_text_hash' = Some(calculate_hash(text))
             /\ UNCHANGED <<last_pasted_text, last_pasted_image_hash>>]_vars

\* "a" and "b" were added, "b" was pinned, and "a", the first non-pinned
\* entry, was offered again: same entries and ids, memo now the hash of "a"
C30_Witness ==
    /\ LatestAddWasText(TextA)
    /\ ret = None
    /\ last_added_text_hash = Some(calculate_hash(TextA))
    /\ NoToken(last_pasted_text, last_pasted_image_hash)
    /\ Len(history) = 2
    /\ IsText(history[1], TextB) /\ history[1].pinned /\ history[1].id = 2
    /\ IsText(history[2], TextA) /\ ~history[2].pinned /\ history[2].id = 1

\* C31: add_image of encodable pixels with fingerprint f returns None and
\* clears the image token, changing nothing else, when the armed image token
\* is f; returns None and changes nothing when the token is not f and the
\* first non-pinned entry has fingerprint f; and otherwise returns a new entry
\* and inserts it, every entry of the history staying where it was relative to
\* the others, an entry with fingerprint f further down included.
C31_ImageRejectedByTokenOrFirstNonPinnedOnly ==
    [][\A image \in Images :
          AddImage(image) /\ convert_image_to_base64(image) # None
          => LET f == calculate_hash(image.bytes)
             IN  IF last_pasted_image_hash = Some(f)
                 THEN /\ ret' = None
                      /\ last_pasted_image_hash' = None
                      /\ UNCHANGED <<history, last_pasted_text,
                                     last_added_text_hash>>
                 ELSE IF TopHasImageHash(f)
                 THEN ret' = None /\ UNCHANGED mgr_vars
                 ELSE /\ ret' # None
                      /\ extract_image_hash(Unwrap(ret')) = Some(f)
                      /\ \E pos \in 1..Len(history') :
                            /\ history'[pos] = Unwrap(ret')
                            /\ history = SubSeq(history', 1, pos - 1)
                                  \o SubSeq(history', pos + 1, Len(history'))
                      /\ UNCHANGED <<last_pasted_text, last_pasted_image_hash,
                                     last_added_text_hash>>]_vars

\* add_image, add_text("a"), add_image of the same pixels: two non-pinned
\* image entries with the same fingerprint, a text entry between them
C31_Witness ==
    /\ Len(history) = 3
    /\ \A i \in 1..3 : ~history[i].pinned
    /\ history[1].content.type = "Image"
    /\ IsText(history[2], TextA)
    /\ history[3].content.type = "Image"
    /\ extract_image_hash(history[1]) = extract_image_hash(history[3])
    /\ ret = Some(history[1])

\* C32: add_image of pixels that cannot be encoded returns None.  When the
\* armed image token is the fingerprint handed in, the call is rejected as
\* self-originated before any encoding and clears that token, changing
\* nothing else; in every other case the history, the repeat-memo and both
\* tokens are left as they were.
C32_UnencodableImageYieldsNoEntry ==
    [][\A image \in Images :
          AddImage(image) /\ convert_image_to_base64(image) = None
          => /\ ret' = None
             /\ UNCHANGED <<history, last_added_text_hash, last_pasted_text>>
             /\ last_pasted_image_hash' =
                   IF last_pasted_image_hash = Some(calculate_hash(image.bytes))
                   THEN None
                   ELSE last_pasted_image_hash]_vars

\* after add_text("a") the 2x1 image with a buffer of one pixel was offered
\* with the text token armed: nothing was added and the token is still armed
C32_Witness ==
    /\ proto = [phase |-> 7, key |-> KeyOfClip(ImageClip(ImageShort))]
    /\ ret = None
    /\ Len(history) = 1
    /\ IsText(history[1], TextA)
    /\ last_pasted_text = Some(TextA)
    /\ last_pasted_image_hash = None
    /\ last_added_text_hash = Some(calculate_hash(TextA))

\* C32 as stated: add_image of pixels that cannot be encoded returns None and
\* leaves the history, the repeat-memo and both tokens as they were.
C32_UnencodableImageChangesNothing ==
    [][\A image \in Images :
          AddImage(image) /\ convert_image_to_base64(image) = None
          => ret' = None /\ UNCHANGED mgr_vars]_vars

C34_UinputEmitsOneSynchronisedCombo ==
    (/\ injector.attempted # <<>>
     /\ injector.attempted[1] = [tier |-> "uinput", ok |-> TRUE])
    => LET w == injector.wire
           IsKey(e) == e.kind = "Key"
           keys == SelectSeq(w, IsKey)
           At(request) == {i \in 1..Len(w) :
                             w[i].kind = "Device" /\ w[i].key = request}
       IN  /\ Len(injector.attempted) = 1
           /\ [i \in 1..Len(keys) |-> <<keys[i].key, keys[i].value>>]
                 = <<<<"KEY_LEFTCTRL", 1>>, <<"KEY_V", 1>>,
                     <<"KEY_V", 0>>, <<"KEY_LEFTCTRL", 0>>>>
           /\ \A i \in 1..Len(w) :
                 IsKey(w[i]) => i < Len(w) /\ w[i + 1].kind = "Synchronization"
           /\ Cardinality({i \in 1..Len(w) : w[i].kind = "Synchronization"}) = Len(keys)
           /\ At("UI_DEV_CREATE") = {1}
           /\ \E t \in 1..Len(w) :
                 /\ At("UI_DEV_DESTROY") = {t}
                 /\ \A i \in 1..Len(w) :
                       w[i].kind \in {"Key", "Synchronization"} => 1 < i /\ i < t
           /\ \A i \in 1..Len(w) :
                 IsKey(w[i]) /\ w[i].value = 1
                 => \E j \in (i + 1)..Len(w) :
                       IsKey(w[j]) /\ w[j].key = w[i].key /\ w[j].value = 0

\* the uinput tier ran to its end: ten events between creation and close
C34_Witness ==
    /\ injector.pc = "idle"
    /\ injector.result = "ok"
    /\ injector.attempted = <<[tier |-> "uinput", ok |-> TRUE]>>
    /\ Len(injector.wire) = 11

\* C35: a fetch_events call ends in the handling of its events, or, on a
\* read error, at the head of the loop again (EAGAIN) or in the backoff sleep
\* (any other error), from which the thread returns to the head of the loop
\* with the same device; a thread leaves its loop only from the head of the
\* loop and only with running false; and a step on the error path changes
\* neither another thread nor the flags, running or what was emitted.
C35_ReadErrorsNeverEndAListener ==
    [][\A d \in Devices :
          /\ Steps(d) /\ listener[d].pc = "fetch"
                => listener'[d].pc \in {"events", "loop", "backoff"}
          /\ Steps(d) /\ listener[d].pc = "backoff"
                => listener'[d].pc = "loop"
          /\ Steps(d) /\ listener'[d].pc = "stopped"
                => listener[d].pc = "loop" /\ ~running
          /\ Steps(d) /\ listener[d].pc \in {"fetch", "backoff"}
                     /\ listener'[d].pc \in {"loop", "backoff"}
                => /\ \A e \in Devices \ {d} : listener'[e] = listener[e]
                   /\ listener'[d].events = listener[d].events
                   /\ running' = running
                   /\ emitted' = emitted
                   /\ <<super_pressed', ctrl_pressed', alt_pressed'>>
                         = <<super_pressed, ctrl_pressed, alt_pressed>>]_vars

\* the thread of device 1 sleeps after a read error while the thread of
\* device 2 is in the middle of a V press, the listener still running
C35_Witness ==
    /\ running
    /\ listener[1].pc = "backoff"
    /\ listener[2].pc = "load_alt"
    /\ super_pressed

\* C36: an add_text or add_image call that returns an entry leaves that
\* entry in the history, whatever the history was before the call.
C36_ReturnedEntryIsInHistory ==
    [][Inserts /\ IsSome(ret')
       => \E i \in 1..Len(history') : history'[i] = Unwrap(ret')]_vars

\* C37: with add_text, toggle_pin, remove_item and clear as the only calls,
\* an add_text of a text that is neither blank nor a loopback marker returns
\* None only if a non-pinned entry holding exactly that text is in the
\* history after the call.
C37_RejectedTextIsInUnpinnedHistory ==
    \A text \in EditInputs :
        LatestAddWasText(text) /\ PassesMarkerChecks(text) /\ ret = None
        => \E i \in 1..Len(history) :
              ~history[i].pinned /\ IsText(history[i], text)

\* C38: the text token and the image token are never armed together.
C38_AtMostOneTokenArmed ==
    ~(IsSome(last_pasted_text) /\ IsSome(last_pasted_image_hash))

\* C39: each shared modifier flag is true exactly when one of the keys of
\* that modifier, on some device, is held down.
C39_FlagsEqualKeysHeldDown ==
    LET Held(keys) == \E h \in held_by.down : h[2] \in keys
    IN  /\ super_pressed = Held({"KEY_LEFTMETA", "KEY_RIGHTMETA"})
        /\ ctrl_pressed = Held({"KEY_LEFTCTRL", "KEY_RIGHTCTRL"})
        /\ alt_pressed = Held({"KEY_LEFTALT", "KEY_RIGHTALT"})

\* C40: one simulate_paste_keystroke call sends at most one V press; once a
\* V press has been sent the call has returned, no further tier being tried;
\* and at every return of a tier the control presses sent are matched by
\* control releases.
C40_AtMostOnePasteCombo ==
    LET w == injector.wire
        Count(key, value) ==
            Cardinality({i \in 1..Len(w) : w[i] = KeyEvent(key, value)})
    IN  /\ Count("KEY_V", 1) <= 1
        /\ Count("KEY_V", 1) = 1 => injector.pc = "idle"
        /\ Count("KEY_LEFTCTRL", 1) = Count("KEY_LEFTCTRL", 0)

====
